---- MODULE Spec2Model ----
(***************************************************************************)
(* Verification model of the SonarAI perception-feedback loop.             *)
(*                                                                         *)
(* The repository holds several revisions of the same React component.     *)
(* The variable rev names the revision a behaviour runs:                   *)
(*   "A1"  src/App.tsx lines 39-509        (interval loop, no latch write) *)
(*   "A2"  src/App.tsx lines 529-914       (interval loop, latch)          *)
(*   "P2a" src/unnamed/part_002 37-610     (recursive loop, latch)         *)
(*   "P2b" src/unnamed/part_002 649-1202   (recursive loop, latch)         *)
(*   "P3"  src/unnamed/part_003 36-547     (interval loop, latch)          *)
(* The gateway (src/services/geminiService.ts) is shared by all of them.   *)
(***************************************************************************)
EXTENDS Integers, Sequences, FiniteSets, Bags, TLC

(***************************************************************************)
(* Bounds of the model.                                                    *)
(***************************************************************************)
\* pan values handed to the audio utilities range over -MaxPan..MaxPan, in tenths
MaxPan == 15
\* most AudioContext instances constructed
MaxContexts == 2
\* the pan limit 1 of Math.max(-1, Math.min(1, pan)), in tenths
PanUnit == 10
\* most detect() passes in flight at once
MaxDetect == 2
\* longest remote response text, in tokens
MaxTextLen == 3
\* most scan closures alive at once (awaiting the remote call or an animation frame)
MaxChains == 2
\* most voice sessions alive at once (microphone request, recorder or handler)
MaxVoice == 1
\* microphone presses (startListening calls) in one behaviour of the recorder
MaxSessions == 3

(***************************************************************************)
(* Remote Call Gateway: src/services/geminiService.ts                      *)
(***************************************************************************)

\* Option values: <<>> is undefined/absent, <<x>> is the value x.
None == <<>>
Some(x) == <<x>>

\* The tokens a remote response text is made of.
\* the code-fence opener with its language tag, and the bare code fence
FenceJson == "[fence-json]"
Fence == "[fence]"
Ws == " "
\* Texts that JSON.parse accepts (one JSON value each).
JsonTokens == {"{SAFE}", "{CAUTION}", "{STOP}", "{}", "null"}
\* Prose that JSON.parse rejects.
JunkTokens == {"Sorry"}
Tokens == {FenceJson, Fence, Ws} \cup JsonTokens \cup JunkTokens

RECURSIVE SeqsUpTo(_, _)
SeqsUpTo(S, n) ==
  IF n = 0 THEN {<<>>}
  ELSE LET shorter == SeqsUpTo(S, n - 1)
       IN shorter \cup {Append(s, x) : s \in {t \in shorter : Len(t) = n - 1}, x \in S}

\* a JSON value inside a fenced block, each marker on a line of its own
FencedTexts == {<<FenceJson, Ws, j, Ws, Fence>> : j \in JsonTokens}

\* the response texts: every text up to the bound, and the fenced blocks
Texts == SeqsUpTo(Tokens, MaxTextLen) \cup FencedTexts

\* error.status values of a rejected generateContent call; 0 is an error without status
Statuses == {0, 400, 429, 500, 503}

\* What one generateContent call can do: resolve with a response carrying text,
\* or reject with an error carrying a status and a message.
Resolved(text) == [ok |-> TRUE, text |-> text, status |-> 0, msg429 |-> FALSE]
Rejected(status, msg429) == [ok |-> FALSE, text |-> <<>>, status |-> status, msg429 |-> msg429]
Outcomes == {Resolved(t) : t \in Texts}
            \cup {Rejected(s, m) : s \in Statuses, m \in BOOLEAN}

\* The object JSON.parse builds from a JSON token. Texts are sequences of words,
\* stereo_pan is in tenths. The CAUTION result carries a summary long enough for
\* the combined text to pass ten words; the others are short.
JsonValue(tok) ==
  CASE tok = "{SAFE}" ->
         [isNull |-> FALSE, safety_status |-> "SAFE",
          reasoning_summary |-> Some(<<"Path", "clear">>),
          navigation_command |-> Some(<<"Go", "straight">>),
          stereo_pan |-> Some(5),
          hazards |-> Some(<<>>), safe_path |-> Some(<<"path">>)]
    [] tok = "{CAUTION}" ->
         [isNull |-> FALSE, safety_status |-> "CAUTION",
          reasoning_summary |-> Some(<<"Chair", "ahead", "on", "the", "left", "side", "of",
                                       "the", "path", "very", "close">>),
          navigation_command |-> Some(<<"Move", "right">>),
          stereo_pan |-> Some(-5),
          hazards |-> Some(<<"chair">>), safe_path |-> Some(<<"path">>)]
    [] tok = "{STOP}" ->
         [isNull |-> FALSE, safety_status |-> "STOP",
          reasoning_summary |-> Some(<<"Stairs", "down">>),
          navigation_command |-> Some(<<"Stop">>),
          stereo_pan |-> Some(0),
          hazards |-> Some(<<"stairs">>), safe_path |-> Some(<<>>)]
    [] tok = "{}" ->
         [isNull |-> FALSE, safety_status |-> "undefined",
          reasoning_summary |-> None, navigation_command |-> None,
          stereo_pan |-> None, hazards |-> None, safe_path |-> None]
    [] OTHER ->
         [isNull |-> TRUE, safety_status |-> "undefined",
          reasoning_summary |-> None, navigation_command |-> None,
          stereo_pan |-> None, hazards |-> None, safe_path |-> None]

\* The fixed safe default of analyzeFrame's catch block.
FallbackResponse ==
  [isNull |-> FALSE, safety_status |-> "STOP",
   reasoning_summary |-> Some(<<"AI", "Error.", "Proceed", "with", "caution.">>),
   navigation_command |-> Some(<<"Stop.">>),
   stereo_pan |-> Some(0),
   hazards |-> Some(<<>>), safe_path |-> Some(<<>>)]

\* Fault variant of the retry test: status 503 is not retried.
IsRetryableNo503(err) ==
  err.status = 429 \/ err.status = 500 \/ err.msg429

\* The retry test of generateWithFallback's catch block.
IsRetryable(err) ==
  err.status = 429 \/ err.status = 503 \/ err.status = 500 \/ err.msg429

\* text.replace(/tok/g, "")
RemoveAll(text, tok) == SelectSeq(text, LAMBDA t : t # tok)

RECURSIVE TrimLeft(_)
TrimLeft(text) ==
  IF text # <<>> /\ Head(text) = Ws THEN TrimLeft(Tail(text)) ELSE text

RECURSIVE TrimRight(_)
TrimRight(text) ==
  IF text # <<>> /\ text[Len(text)] = Ws
  THEN TrimRight(SubSeq(text, 1, Len(text) - 1)) ELSE text

Trim(text) == TrimRight(TrimLeft(text))

\* fault variant: only the bare fence is removed
CleanTextBareFenceOnly(text) == Trim(RemoveAll(text, Fence))

\* response.text.replace(/FenceJson/g, "").replace(/Fence/g, "").trim()
CleanText(text) == Trim(RemoveAll(RemoveAll(text, FenceJson), Fence))

\* JSON.parse: one JSON value, nothing else
JsonParses(clean) == Len(clean) = 1 /\ clean[1] \in JsonTokens

\* The try block of analyzeFrame after generateWithFallback has settled:
\* gen.threw is the error generateWithFallback rethrew, otherwise gen.text is
\* response.text. threw = TRUE is an exception leaving the try block.
AnalyzeTry(gen) ==
  IF gen.threw THEN [threw |-> TRUE, value |-> JsonValue("null")]
  ELSE IF gen.text = <<>> THEN [threw |-> TRUE, value |-> JsonValue("null")]
  ELSE IF JsonParses(CleanText(gen.text))
       THEN [threw |-> FALSE, value |-> JsonValue(CleanText(gen.text)[1])]
       ELSE [threw |-> TRUE, value |-> JsonValue("null")]

\* Fault variant of analyzeFrame: the catch block answers with a permissive result.
AnalyzeFrameFailOpen(gen) ==
  IF AnalyzeTry(gen).threw
  THEN [threw |-> FALSE, value |-> JsonValue("{SAFE}")]
  ELSE AnalyzeTry(gen)

\* Fault variant of analyzeFrame: no catch block, the exception reaches the caller.
AnalyzeFrameNoCatch(gen) == AnalyzeTry(gen)

\* analyzeFrame: the try block, and the catch block that turns every exception
\* into the fallback safety response.
AnalyzeFrame(gen) ==
  IF AnalyzeTry(gen).threw
  THEN [threw |-> FALSE, value |-> FallbackResponse]
  ELSE AnalyzeTry(gen)

\* What generateWithFallback can hand back: a rethrown error, or a response text.
GenResults == {[threw |-> TRUE, text |-> <<>>]}
              \cup {[threw |-> FALSE, text |-> t] : t \in Texts}

\* Every way an analyzeFrame call can settle, as the controller sees it.
AnalyzeResults == {AnalyzeFrame(g) : g \in GenResults}

\* The second argument of a transcribeAudio call: a string (the callers pass the
\* name of the language), or undefined (None) when the caller passes none.
MimeTypes == {None, Some("English")}

\* The try block of transcribeAudio: mimeType.split(';') throws on an undefined
\* mimeType before generateWithFallback is called; after generateWithFallback
\* has settled the result is response.text || "", the transcript as it came.
TranscribeTry(mimeType, gen) ==
  IF mimeType = None THEN [threw |-> TRUE, value |-> <<>>]
  ELSE IF gen.threw THEN [threw |-> TRUE, value |-> <<>>]
  ELSE [threw |-> FALSE, value |-> gen.text]

\* Fault variant of transcribeAudio: no catch block.
TranscribeAudioNoCatch(mimeType, gen) == TranscribeTry(mimeType, gen)

\* transcribeAudio: the try block, and the catch block that returns ""
TranscribeAudio(mimeType, gen) ==
  IF TranscribeTry(mimeType, gen).threw
  THEN [threw |-> FALSE, value |-> <<>>]
  ELSE TranscribeTry(mimeType, gen)

\* The payloads a speech response can carry as inline data.
AudioPayloads == {"pcm-a", "pcm-b"}
\* What the one generateContent call of generateSpeech can do: reject, or resolve
\* with a response whose candidates?.[0]?.content?.parts?.[0]?.inlineData?.data
\* is undefined (a link of the chain is missing), the empty string, or a payload.
SpeechOutcomes ==
  {[ok |-> FALSE, data |-> None]}
  \cup {[ok |-> TRUE, data |-> d] : d \in {None, Some("")} \cup {Some(p) : p \in AudioPayloads}}

\* The try block of generateSpeech: the payload when it is truthy, else null
\* (None).
SpeechTry(o) ==
  IF ~o.ok THEN [threw |-> TRUE, value |-> None]
  ELSE IF o.data # None /\ o.data[1] # ""
       THEN [threw |-> FALSE, value |-> o.data]
       ELSE [threw |-> FALSE, value |-> None]

\* Fault variant of generateSpeech: no catch block.
GenerateSpeechNoCatch(o) == SpeechTry(o)

\* generateSpeech: the try block, and the catch block that returns null
GenerateSpeech(o) ==
  IF SpeechTry(o).threw
  THEN [threw |-> FALSE, value |-> None]
  ELSE SpeechTry(o)

(***************************************************************************)
(* Perception Loop Controller: the App component.                          *)
(***************************************************************************)
VARIABLES
  rev,               \* the revision of the component this behaviour runs
  appState,          \* useState<AppState>
  lastResponse,      \* useState<SonarResponse | null>
  isProcessingState, \* useState(false): the "processing" indicator
  emergencyLatch,    \* useState(false)
  langIndex,         \* useState(0): index into LANGUAGES
  isProcessingRef,   \* useRef(false): the scan lock
  inflight,          \* bag of scan closures awaiting their analyzeFrame call
  raf,               \* bag of scan closures waiting in requestAnimationFrame
  interval,          \* the closure the live setInterval timer calls, if any
  micPending,        \* getUserMedia promises not yet settled
  recState,          \* state of mediaRecorderRef.current ("null" when unset)
  voice,             \* bag of running onstop handlers, by the await they are at
  detectedObjects,   \* detectedObjectsRef: the boxes of the last detector pass
  mounted,           \* the component is mounted: FALSE once a render or an effect threw
  netRef,            \* netRef: the detector model, while loading, loaded or failed
  isDetectingRef,    \* isDetectingRef: the detector lock
  detectInflight,    \* detect() promises not yet settled
  detectOutcome,     \* how the last detector pass that settled ended
  audioRev,          \* which revision of the audio utilities is loaded
  stereoPanner,      \* the browser's audio device has createStereoPanner
  audioCtx,          \* audioCtx: the module's audio device, None while null
  constructed,       \* AudioContext instances constructed so far
  returned,          \* the instance the last call obtained from getAudioContext
  audioCall,         \* the audio utility the last step called last, None when it called none
  sound,             \* the node graph that call started, None when it started none
  out,               \* the audio cues and utterances the last step called for
  gwPc,              \* where one analyzeFrame invocation stands
  gwCalls,           \* the models it has called, in order
  gwPrimary,         \* how the call to the primary model settled, if it has
  gwFallback,        \* how the call to the fallback model settled, if it has
  gwGen,             \* what generateWithFallback handed back
  gwOut,             \* what analyzeFrame handed to its caller
  gwTask,            \* the gateway entry point that is running, if any
  gwText,            \* what transcribeAudio handed to its caller
  gwSpeech,          \* how the call to the speech model settled, if it has
  gwAudio,           \* what generateSpeech handed to its caller
  gwMime,            \* the mimeType argument of the transcribeAudio call
  spoken,            \* how the high-quality speak request ended, "none" before
  recorders,         \* the MediaRecorder objects that can still act, in order of creation
  mediaRecorderRef,  \* mediaRecorderRef.current: index into recorders, 0 for null
  audioChunksRef,    \* audioChunksRef.current: for each chunk, the recorder it came from
                     \* while that recorder can still fire, 0 afterwards
  audioBlob,         \* the blob the onstop handler of the last step built, None otherwise
  held               \* the hold-to-speak control is down (followed in PressSpec)

ctl == <<rev, appState, lastResponse, isProcessingState, emergencyLatch, langIndex,
         isProcessingRef, inflight, raf, interval, micPending, recState, voice,
         detectedObjects, out, mounted>>
det == <<netRef, isDetectingRef, detectInflight, detectOutcome>>
aud == <<audioRev, stereoPanner, audioCtx, constructed, returned>>
gw == <<gwPc, gwCalls, gwPrimary, gwFallback, gwGen, gwOut, gwTask, gwText, gwSpeech, gwAudio,
       gwMime>>
rcd == <<recorders, mediaRecorderRef, audioChunksRef, audioBlob>>
vars == <<rev, appState, lastResponse, isProcessingState, emergencyLatch, langIndex,
          isProcessingRef, inflight, raf, interval, micPending, recState, voice,
          detectedObjects, out, mounted,
          netRef, isDetectingRef, detectInflight, detectOutcome,
          audioRev, stereoPanner, audioCtx, constructed, returned, audioCall, sound,
          gwPc, gwCalls, gwPrimary, gwFallback, gwGen, gwOut, gwTask, gwText, gwSpeech, gwAudio,
          gwMime, spoken,
          recorders, mediaRecorderRef, audioChunksRef, audioBlob,
          held>>

Revisions == {"A1", "A2", "P2a", "P2b", "P3"}
\* the revisions with a recursive loop, and those with a language menu
RecursiveRevs == {"P2a", "P2b"}
LanguageRevs == {"A1", "P2a", "P2b", "P3"}
AppStates == {"IDLE", "SCANNING", "LISTENING", "PROCESSING_QUERY"}
\* two of the entries of LANGUAGES
Languages == {0, 1}
\* what the camera gives a cycle: a frame, a video that is not ready, or no image
Frames == {"ok", "notready", "noimage"}
\* webcamRef.current is null once the component is unmounted
CameraFrames == IF mounted THEN Frames ELSE {"gone"}
\* lastResponse = null
NullResponse == JsonValue("null")
\* what the chunk of a stopped recording holds: nothing, a click of about a
\* kilobyte, or speech
RecordingSizes == {"none", "click", "speech"}

(***************************************************************************)
(* Audio utilities: the four revisions of the module, U1 to U3 in          *)
(* src/utils/audioUtils.ts and U0 in src/unnamed/part_000.                 *)
(***************************************************************************)

AudioRevs == {"U0", "U1", "U2", "U3"}
\* the revisions that export playCautionSound
CautionRevs == {"U0", "U1"}
\* the revisions that export playRawPCM
RawPCMRevs == {"U1"}
\* numeric pan arguments, in tenths
PanInputs == (0 - MaxPan)..MaxPan
\* the pan arguments a caller can pass: a number, or undefined (None), which is
\* what the components pass for a result without stereo_pan
PanArgs == {None} \cup {Some(pan) : pan \in PanInputs}

MathMin(a, b) == IF a < b THEN a ELSE b
MathMax(a, b) == IF a > b THEN a ELSE b

\* Math.max(-1, Math.min(1, pan)) of a number
Clamp(pan) == MathMax(0 - PanUnit, MathMin(PanUnit, pan))
\* safePan: the same of any argument; of undefined it is NaN, written None
SafePan(pan) == IF pan = None THEN None ELSE Some(Clamp(pan[1]))

\* fault variant: a getAudioContext that constructs a device on every call
GetAudioContextAlwaysNew(a) ==
  [audioCtx |-> Some(a.constructed + 1), constructed |-> a.constructed + 1]

\* getAudioContext: constructs the device only while audioCtx is null; the
\* device it returns is the audioCtx of the result
GetAudioContext(a) ==
  IF a.audioCtx = None
  THEN [audioCtx |-> Some(a.constructed + 1), constructed |-> a.constructed + 1]
  ELSE a

\* The panning node of one ping or pulse. stereo says whether the device has
\* createStereoPanner. U1 falls back to a PannerNode placed at the clamped x;
\* U0 and U2 fall back to no panning and never read pan; U3 has no fallback.
PanNode(u, stereo, pan) ==
  IF stereo
  THEN [node |-> "stereo", pan |-> SafePan(pan)]
  ELSE IF u = "U1"
       THEN [node |-> "hrtf", pan |-> SafePan(pan)]
       ELSE [node |-> "none", pan |-> None]

\* panner.pan.setValueAtTime and panner.setPosition take finite numbers: handed
\* NaN they throw a TypeError, and they are called before osc.start()
PannerThrows(u, stereo, pan) ==
  SafePan(pan) = None /\ PanNode(u, stereo, pan).node # "none"

\* playSonarPing: the graph it starts, None when the call throws before it
\* starts one; in U3 createStereoPanner is called unconditionally and the call
\* throws on a device without it
SonarPingGraph(u, stereo, pan) ==
  IF (u = "U3" /\ ~stereo) \/ PannerThrows(u, stereo, pan)
  THEN None
  ELSE Some([kind |-> "ping", node |-> PanNode(u, stereo, pan).node,
             pan |-> PanNode(u, stereo, pan).pan])

\* playCautionSound: both pulses carry the same panning node; the first pulse
\* throws before it starts when the panner does
CautionSoundGraph(u, stereo, pan) ==
  IF PannerThrows(u, stereo, pan)
  THEN None
  ELSE Some([kind |-> "caution", node |-> PanNode(u, stereo, pan).node,
             pan |-> PanNode(u, stereo, pan).pan])

\* playBeep: oscillator and gain, no panning
BeepGraph == Some([kind |-> "beep", node |-> "none", pan |-> None])

\* playRawPCM: a buffer source for a payload that decodes; a payload that does
\* not is logged and plays nothing
PCMInputs == AudioPayloads \cup {"garbled"}
RawPCMGraph(data) ==
  IF data \in AudioPayloads
  THEN Some([kind |-> "pcm", node |-> "none", pan |-> None])
  ELSE None

\* one call of an audio utility: its name, its pan argument (None for
\* undefined) and its payload
Call(fn, pan, data) == [fn |-> fn, pan |-> pan, data |-> data]

\* The graph a call starts in revision u on a device with or without
\* createStereoPanner, None when it starts none.
CallGraph(u, stereo, c) ==
  CASE c.fn = "playBeep" -> BeepGraph
    [] c.fn = "playRawPCM" -> RawPCMGraph(c.data)
    [] c.fn = "playCautionSound" -> CautionSoundGraph(u, stereo, c.pan)
    [] c.fn = "playSonarPing" -> SonarPingGraph(u, stereo, c.pan)
    [] OTHER -> None

\* the call throws to its caller: a ping or a pulse that started no graph
\* (playRawPCM catches what its decoding throws)
CallThrows(u, stereo, c) ==
  c.fn \in {"playSonarPing", "playCautionSound"} /\ CallGraph(u, stereo, c) = None

\* The module after one call: every utility begins with getAudioContext, which
\* constructs the device while there is none, and then starts its graph.
AfterCall(a, u, stereo, c) ==
  LET g == GetAudioContext([audioCtx |-> a.audioCtx, constructed |-> a.constructed])
  IN [audioCtx |-> g.audioCtx, constructed |-> g.constructed, returned |-> g.audioCtx,
      audioCall |-> Some([fn |-> c.fn, pan |-> c.pan, stereo |-> stereo,
                          created |-> g.constructed # a.constructed]),
      sound |-> CallGraph(u, stereo, c)]

\* the module after the calls of one step, in their order
RECURSIVE AfterCalls(_, _, _, _)
AfterCalls(a, u, stereo, calls) ==
  IF calls = <<>> THEN a
  ELSE AfterCalls(AfterCall(a, u, stereo, Head(calls)), u, stereo, Tail(calls))

\* the module as a step finds it; audioCall and sound are of the step itself
AudioModule ==
  [audioCtx |-> audioCtx, constructed |-> constructed, returned |-> returned,
   audioCall |-> None, sound |-> None]

\* a step that calls no audio utility
Quiet == audioCall' = None /\ sound' = None

\* The component's state and refs as one record, so that a handler is a function
\* from the values it finds to the values it leaves.
Cur ==
  [appState |-> appState, lastResponse |-> lastResponse,
   isProcessingState |-> isProcessingState, emergencyLatch |-> emergencyLatch,
   langIndex |-> langIndex, isProcessingRef |-> isProcessingRef,
   inflight |-> inflight, raf |-> raf, interval |-> interval,
   micPending |-> micPending, recState |-> recState, voice |-> voice,
   detectedObjects |-> detectedObjects, out |-> <<>>, calls |-> <<>>, mounted |-> mounted,
   netRef |-> netRef, isDetectingRef |-> isDetectingRef,
   detectInflight |-> detectInflight, detectOutcome |-> detectOutcome,
   recorders |-> recorders, mediaRecorderRef |-> mediaRecorderRef,
   audioChunksRef |-> audioChunksRef, audioBlob |-> None]

Apply(s) ==
  /\ appState' = s.appState
  /\ lastResponse' = s.lastResponse
  /\ isProcessingState' = s.isProcessingState
  /\ emergencyLatch' = s.emergencyLatch
  /\ langIndex' = s.langIndex
  /\ isProcessingRef' = s.isProcessingRef
  /\ inflight' = s.inflight
  /\ raf' = s.raf
  /\ interval' = s.interval
  /\ micPending' = s.micPending
  /\ recState' = s.recState
  /\ voice' = s.voice
  /\ detectedObjects' = s.detectedObjects
  /\ out' = s.out
  /\ mounted' = s.mounted
  /\ netRef' = s.netRef
  /\ isDetectingRef' = s.isDetectingRef
  /\ detectInflight' = s.detectInflight
  /\ detectOutcome' = s.detectOutcome
  /\ recorders' = s.recorders
  /\ mediaRecorderRef' = s.mediaRecorderRef
  /\ audioChunksRef' = s.audioChunksRef
  /\ audioBlob' = s.audioBlob
  /\ LET a == AfterCalls(AudioModule, audioRev, stereoPanner, s.calls)
     IN /\ audioCtx' = a.audioCtx
        /\ constructed' = a.constructed
        /\ returned' = a.returned
        /\ audioCall' = a.audioCall
        /\ sound' = a.sound
  /\ UNCHANGED <<rev, gw, audioRev, stereoPanner, spoken>>

\* The values of appState and emergencyLatch a scan callback closed over when the
\* render that created it ran. (The language it closed over only goes into the
\* request, so it is not kept.)
Closure(s) == [appState |-> s.appState, emergencyLatch |-> s.emergencyLatch]

One(x) == SetToBag({x})
Emit(s, o) == [s EXCEPT !.out = Append(@, o)]
Chains(s) == BagCardinality(s.inflight) + BagCardinality(s.raf)

\* a string that is neither undefined nor empty
Truthy(text) == text # None /\ text[1] # <<>>
\* speak(text, useHighQuality): nothing for an undefined or empty text
Speak(s, text, hq) == IF Truthy(text) THEN Emit(s, <<"speak", text[1], hq>>) ELSE s
\* a call of an audio utility, in the order of the step's calls
Calls(s, c) == [s EXCEPT !.calls = Append(@, c)]
\* initAudio()
InitAudio(s) == Calls(s, Call("getAudioContext", None, None))
\* playBeep(freq, duration, type)
PlayBeep(s, freq) == Calls(Emit(s, <<"beep", freq>>), Call("playBeep", None, None))
\* playCautionSound(pan), playSonarPing(pan)
PlayCautionSound(s, pan) ==
  Calls(Emit(s, <<"caution", pan>>), Call("playCautionSound", pan, None))
PlaySonarPing(s, pan) ==
  Calls(Emit(s, <<"ping", pan>>), Call("playSonarPing", pan, None))
\* the last call of the handler threw
Threw(s) ==
  s.calls # <<>> /\ CallThrows(audioRev, stereoPanner, s.calls[Len(s.calls)])
\* speak(text, useHighQuality) as the statement after a cue in a try block: a cue
\* that threw has left the block
SpeakAfter(s, text, hq) == IF Threw(s) THEN s ELSE Speak(s, text, hq)

(***************************************************************************)
(* The scan cycle, per revision. Each operator maps the component's values *)
(* before the code runs to its values after, up to the next await.         *)
(***************************************************************************)

\* `${navigation_command}. ${reasoning_summary}` as words; the full stop is
\* written as its own token and belongs to the word before it.
CombinedText(data) ==
  IF Truthy(data.reasoning_summary)
  THEN (IF data.navigation_command = None THEN <<"undefined">>
        ELSE data.navigation_command[1]) \o <<".">> \o data.reasoning_summary[1]
  ELSE data.navigation_command[1]

\* combinedText.split(/\s+/).filter(w => w.length > 0).length
WordCount(text) ==
  Cardinality({i \in 1..Len(text) : text[i] # "." \/ i = 1})

\* the spoken message of part_002 and part_003: both texts when they are short
VoiceMessage(data) ==
  IF WordCount(CombinedText(data)) <= 10 /\ Truthy(data.reasoning_summary)
  THEN Some(CombinedText(data))
  ELSE data.navigation_command

\* A TypeError inside the try block of runNavigationLoop: a property read on
\* null, or split() on an undefined combined text.
ResultThrows(data) ==
  \/ data.isNull
  \/ ~Truthy(data.reasoning_summary) /\ data.navigation_command = None

\* runNavigationLoop of part_002 (first revision) from its entry to the await
RunNavigationLoopP2a(s, cl, frame) ==
  IF cl.appState # "SCANNING" \/ s.isProcessingRef \/ frame = "gone" \/ cl.emergencyLatch
  THEN s
  ELSE IF frame = "notready" THEN [s EXCEPT !.raf = @ (+) One(cl)]
  ELSE IF frame = "noimage"
       THEN [s EXCEPT !.isProcessingRef = FALSE, !.isProcessingState = FALSE,
                      !.raf = @ (+) One(cl)]
       ELSE [s EXCEPT !.isProcessingRef = TRUE, !.isProcessingState = TRUE,
                      !.inflight = @ (+) One(cl)]

\* Fault variant of the policy: a CAUTION result sets the latch too.
DispatchP2aLatchOnCaution(s, data) ==
  IF data.safety_status = "STOP"
  THEN Speak(PlayBeep([s EXCEPT !.emergencyLatch = TRUE], 1000), VoiceMessage(data), FALSE)
  ELSE IF data.safety_status = "CAUTION"
       THEN SpeakAfter(PlayCautionSound([s EXCEPT !.emergencyLatch = TRUE],
                                        data.stereo_pan),
                       VoiceMessage(data), FALSE)
       ELSE SpeakAfter(PlaySonarPing(s, data.stereo_pan), VoiceMessage(data), FALSE)

\* the policy of the try block: status to latch, cue and speech
DispatchP2a(s, data) ==
  IF data.safety_status = "STOP"
  THEN Speak(PlayBeep([s EXCEPT !.emergencyLatch = TRUE], 1000), VoiceMessage(data), FALSE)
  ELSE IF data.safety_status = "CAUTION"
       THEN SpeakAfter(PlayCautionSound(s, data.stereo_pan), VoiceMessage(data), FALSE)
       ELSE SpeakAfter(PlaySonarPing(s, data.stereo_pan), VoiceMessage(data), FALSE)

\* the finally block of part_002: release the lock, then reschedule itself when
\* the values the closure captured say so
FinallyP2a(s, cl) ==
  LET s1 == [s EXCEPT !.isProcessingRef = FALSE, !.isProcessingState = FALSE]
  IN IF cl.appState = "SCANNING" /\ ~cl.emergencyLatch
     THEN [s1 EXCEPT !.raf = @ (+) One(cl)]
     ELSE s1

\* runNavigationLoop of part_002 from the await to its end
ScanResultP2a(s, cl, res) ==
  LET s0 == [s EXCEPT !.inflight = @ (-) One(cl)]
      s1 == IF res.threw THEN s0
            ELSE IF ResultThrows(res.value) THEN [s0 EXCEPT !.lastResponse = res.value]
            ELSE DispatchP2a([s0 EXCEPT !.lastResponse = res.value], res.value)
  IN FinallyP2a(s1, cl)

\* runNavigationLoop of part_002 (second revision) from its entry to the await:
\* no screenshot fallback and no test for an empty image
RunNavigationLoopP2b(s, cl, frame) ==
  IF cl.appState # "SCANNING" \/ s.isProcessingRef \/ frame = "gone" \/ cl.emergencyLatch
  THEN s
  ELSE IF frame = "notready" THEN [s EXCEPT !.raf = @ (+) One(cl)]
  ELSE [s EXCEPT !.isProcessingRef = TRUE, !.isProcessingState = TRUE,
                 !.inflight = @ (+) One(cl)]

\* the spoken message of part_002 (second revision): throttled for SAFE results
\* once a result is on display (lastResponseRef mirrors the previous render)
VoiceMessageP2b(data, shown) ==
  IF data.safety_status # "SAFE" \/ shown.isNull
  THEN (IF Truthy(data.reasoning_summary) THEN Some(CombinedText(data))
        ELSE data.navigation_command)
  ELSE data.navigation_command

DispatchP2b(s, data, shown) ==
  IF data.safety_status = "STOP"
  THEN Speak(PlayBeep([s EXCEPT !.emergencyLatch = TRUE], 1000),
             VoiceMessageP2b(data, shown), FALSE)
  ELSE IF data.safety_status = "CAUTION"
       THEN SpeakAfter(PlayCautionSound(s, data.stereo_pan),
                       VoiceMessageP2b(data, shown), FALSE)
       ELSE SpeakAfter(PlaySonarPing(s, data.stereo_pan),
                       VoiceMessageP2b(data, shown), FALSE)

\* runNavigationLoop of part_002 (second revision) from the await to its end
ScanResultP2b(s, cl, res) ==
  LET s0 == [s EXCEPT !.inflight = @ (-) One(cl)]
      s1 == IF res.threw THEN s0
            ELSE IF res.value.isNull THEN [s0 EXCEPT !.lastResponse = res.value]
            ELSE DispatchP2b([s0 EXCEPT !.lastResponse = res.value], res.value,
                             s.lastResponse)
  IN FinallyP2a(s1, cl)

\* the effect "Trigger Gemini Loop" of part_002 (second revision)
ScanEffectP2b(old, s, frame) ==
  IF <<old.appState, old.emergencyLatch, old.langIndex>>
     = <<s.appState, s.emergencyLatch, s.langIndex>>
  THEN s
  ELSE LET c == [s EXCEPT !.isProcessingRef = FALSE, !.isProcessingState = FALSE]
       IN IF c.appState = "SCANNING" /\ ~c.emergencyLatch
          THEN RunNavigationLoopP2b(c, Closure(c), frame)
          ELSE c

\* The effect "Start Loop Trigger" of part_002 after a render: when a dependency
\* changed, the cleanup of the previous run, then the body.
ScanEffectP2a(old, s, frame) ==
  IF <<old.appState, old.emergencyLatch, old.langIndex>>
     = <<s.appState, s.emergencyLatch, s.langIndex>>
  THEN s
  ELSE LET c == [s EXCEPT !.isProcessingRef = FALSE, !.isProcessingState = FALSE]
       IN IF c.appState = "SCANNING" /\ ~c.emergencyLatch
          THEN RunNavigationLoopP2a(c, Closure(c), frame)
          ELSE c

\* runNavigationLoop of part_003 from its entry to the await
RunNavigationLoopP3(s, cl, frame) ==
  IF cl.appState # "SCANNING" \/ s.isProcessingRef \/ cl.emergencyLatch THEN s
  ELSE IF frame # "ok" THEN s
  ELSE [s EXCEPT !.isProcessingRef = TRUE, !.isProcessingState = TRUE,
                 !.inflight = @ (+) One(cl)]

\* the finally block of part_003
FinallyP3(s) == [s EXCEPT !.isProcessingRef = FALSE, !.isProcessingState = FALSE]

\* runNavigationLoop of part_003 from the await to its end
ScanResultP3(s, cl, res) ==
  LET s0 == [s EXCEPT !.inflight = @ (-) One(cl)]
      s1 == IF res.threw THEN s0
            ELSE IF ResultThrows(res.value) THEN [s0 EXCEPT !.lastResponse = res.value]
            ELSE DispatchP2a([s0 EXCEPT !.lastResponse = res.value], res.value)
  IN FinallyP3(s1)

\* the policy of App.tsx (second revision): alarm and latch on STOP, ping otherwise
DispatchA2(s, data) ==
  IF data.safety_status = "STOP"
  THEN Speak(PlayBeep([s EXCEPT !.emergencyLatch = TRUE], 1000),
             data.navigation_command, FALSE)
  ELSE SpeakAfter(PlaySonarPing(s, data.stereo_pan), data.navigation_command, FALSE)

\* runNavigationLoop of App.tsx (second revision) from the await to its end
ScanResultA2(s, cl, res) ==
  LET s0 == [s EXCEPT !.inflight = @ (-) One(cl)]
      s1 == IF res.threw THEN s0
            ELSE IF res.value.isNull THEN [s0 EXCEPT !.lastResponse = res.value]
            ELSE DispatchA2([s0 EXCEPT !.lastResponse = res.value], res.value)
  IN FinallyP3(s1)

\* The interval effect of part_003 after a render: clearInterval, then when
\* scanning and not latched one immediate call and a new interval.
ScanEffectP3(old, s, frame) ==
  IF <<old.appState, old.emergencyLatch, old.langIndex>>
     = <<s.appState, s.emergencyLatch, s.langIndex>>
  THEN s
  ELSE LET c == [s EXCEPT !.interval = None]
       IN IF c.appState = "SCANNING" /\ ~c.emergencyLatch
          THEN [RunNavigationLoopP3(c, Closure(c), frame)
                  EXCEPT !.interval = Some(Closure(c))]
          ELSE c

\* runGeminiCycle of App.tsx from its entry to the await
RunGeminiCycle(s, cl, frame) ==
  IF cl.appState # "SCANNING" \/ s.isProcessingRef \/ cl.emergencyLatch THEN s
  ELSE IF frame # "ok" THEN s
  ELSE PlayBeep([s EXCEPT !.isProcessingRef = TRUE, !.isProcessingState = TRUE,
                          !.inflight = @ (+) One(cl)], 880)

\* the text of a template literal `${prefix} ${field}`
Template(prefix, field) ==
  Some(prefix \o (IF field = None THEN <<"undefined">> ELSE field[1]))

\* the audio feedback logic of runGeminiCycle
DispatchA1(s, response) ==
  IF response.safety_status = "STOP"
  THEN SpeakAfter(PlayCautionSound(s, response.stereo_pan),
                  Template(<<"STOP", ".">>, response.reasoning_summary), TRUE)
  ELSE IF response.safety_status = "CAUTION"
       THEN SpeakAfter(PlaySonarPing(s, response.stereo_pan),
                       Template(<<"Caution", ".">>, response.navigation_command), FALSE)
       ELSE PlaySonarPing(s, response.stereo_pan)

\* runGeminiCycle of App.tsx from the await to its end
ScanResultA1(s, cl, res) ==
  LET s0 == [s EXCEPT !.inflight = @ (-) One(cl)]
      s1 == IF res.threw \/ res.value.isNull THEN s0
            ELSE DispatchA1([s0 EXCEPT !.lastResponse = res.value], res.value)
  IN [s1 EXCEPT !.isProcessingRef = FALSE, !.isProcessingState = FALSE]

\* The "Gemini Intelligence Loop" effect of App.tsx after a render.
ScanEffectA1(old, s, frame) ==
  IF <<old.appState, old.emergencyLatch, old.langIndex>>
     = <<s.appState, s.emergencyLatch, s.langIndex>>
  THEN s
  ELSE LET c == [s EXCEPT !.interval = None]
       IN IF c.appState = "SCANNING"
          THEN RunGeminiCycle([c EXCEPT !.interval = Some(Closure(c))], Closure(c), frame)
          ELSE c

\* fault variant: a render loop that starts a pass without looking at the lock
RenderTickIgnoresLock(s, frame) ==
  IF /\ frame # "notready"
     /\ s.netRef = "loaded"
     /\ s.appState = "SCANNING"
     /\ ~s.emergencyLatch
  THEN [s EXCEPT !.isDetectingRef = TRUE, !.detectInflight = @ + 1]
  ELSE s

\* One run of the render loop. The effect that owns the loop is re-created when
\* appState or emergencyLatch change, so the loop reads their current values.
\* With the video ready, the model loaded, the loop Scanning, no latch and the
\* detector lock free it takes the lock and starts a detect() pass. It sets no
\* state, so no render follows.
RenderTickHandler(s, frame) ==
  IF /\ frame # "notready"
     /\ s.netRef = "loaded"
     /\ s.appState = "SCANNING"
     /\ ~s.emergencyLatch
     /\ ~s.isDetectingRef
  THEN [s EXCEPT !.isDetectingRef = TRUE, !.detectInflight = @ + 1]
  ELSE s

\* The render and detection effect of App.tsx after a render: when appState or
\* emergencyLatch changed the loop is started again and its first run is at
\* once. (The effect of part_002 asks for an animation frame instead.)
RenderLoopEffectA1(old, s, frame) ==
  IF <<old.appState, old.emergencyLatch>> = <<s.appState, s.emergencyLatch>>
  THEN s
  ELSE RenderTickHandler(s, frame)

\* lastResponse.stereo_pan.toFixed(..) on a result that is an object without a
\* numeric stereo_pan: a TypeError
PanThrows(response) == ~response.isNull /\ response.stereo_pan = None

\* The render of App.tsx throws when its JSX formats the pan of such a result;
\* the canvas effect of part_002 (first revision), which runs when lastResponse
\* changed, throws when it prints the pan. The other revisions only read it.
RenderThrows(s) == rev = "A1" /\ PanThrows(s.lastResponse)
CanvasEffectThrows(old, s) ==
  rev = "P2a" /\ s.lastResponse # old.lastResponse /\ PanThrows(s.lastResponse)

\* An error no boundary catches unmounts the component: the cleanup of every
\* effect runs (the interval is cleared, part_002 releases the scan lock) and
\* the refs to the camera and the canvas become null.
Unmount(s) ==
  [s EXCEPT !.mounted = FALSE, !.interval = None,
            !.isProcessingRef = IF rev \in RecursiveRevs THEN FALSE ELSE @]

\* setState of an unmounted component is ignored: the refs keep what the
\* handler wrote, the state keeps what it was
Ignored(old, s) ==
  [s EXCEPT !.appState = old.appState, !.lastResponse = old.lastResponse,
            !.isProcessingState = old.isProcessingState,
            !.emergencyLatch = old.emergencyLatch, !.langIndex = old.langIndex]

\* the scan effect of each revision
ScanEffect(old, s, frame) ==
  CASE rev = "P2a" -> ScanEffectP2a(old, s, frame)
    [] rev = "P2b" -> ScanEffectP2b(old, s, frame)
    [] rev \in {"P3", "A2"} -> ScanEffectP3(old, s, frame)
    [] OTHER -> ScanEffectA1(old, RenderLoopEffectA1(old, s, frame), frame)

\* A render and the effects that follow it: old holds the values of the
\* previous render, s the values the handler left. A render that throws runs no
\* effect; an effect that throws lets the others run.
Commit(old, s, frame) ==
  IF ~old.mounted THEN Ignored(old, s)
  ELSE IF RenderThrows(s) THEN Unmount(s)
  ELSE IF CanvasEffectThrows(old, s) THEN Unmount(ScanEffect(old, s, frame))
  ELSE ScanEffect(old, s, frame)

\* The camera is looked at only when the scan effect runs again, that is when
\* one of its dependencies changed in the render, and finds the loop Scanning
\* and not latched.
EffectFrames(s) ==
  IF ~mounted THEN {"gone"}
  ELSE IF <<appState, emergencyLatch, langIndex>>
          = <<s.appState, s.emergencyLatch, s.langIndex>>
       THEN {"ok"}
       ELSE IF s.appState = "SCANNING" /\ ~s.emergencyLatch THEN Frames ELSE {"ok"}

\* a handler's result goes through the render and becomes the next state
StepWith(s, frame) ==
  LET next == Commit(Cur, s, frame)
  IN /\ Chains(next) <= MaxChains
     /\ next.detectInflight <= MaxDetect
     /\ Apply(next)

\* a step of the component; it does not move the hold-to-speak control
Step(s, frame) ==
  /\ StepWith(s, frame)
  /\ UNCHANGED held

\* a handler's result, rendered with whatever the camera gives the scan effect
Handle(s) == \E frame \in EffectFrames(s) : Step(s, frame)

(***************************************************************************)
(* User controls.                                                          *)
(***************************************************************************)

\* the phrases of toggleNavigation: part_002 (second revision) shortens them
PausedText == IF rev = "P2b" THEN Some(<<"Paused">>) ELSE Some(<<"System", "Paused">>)
ActiveText ==
  IF rev = "P2b" THEN Some(<<"Scanning">>) ELSE Some(<<"System", "Active.", "Scanning.">>)

\* Fault variant of toggleNavigation: the reset goes straight back to Scanning.
ToggleNavigationResumes(s0) ==
  LET s == InitAudio(s0) IN
  IF s.emergencyLatch
  THEN Speak([s EXCEPT !.emergencyLatch = FALSE, !.appState = "SCANNING",
                       !.lastResponse = NullResponse],
             Some(<<"System", "Reset">>), FALSE)
  ELSE IF s.appState = "SCANNING"
       THEN [Speak([s EXCEPT !.appState = "IDLE"], PausedText, FALSE)
               EXCEPT !.lastResponse = NullResponse]
       ELSE Speak([s EXCEPT !.appState = "SCANNING"], ActiveText, FALSE)

\* Fault variant of toggleNavigation: the reset keeps the last result on display.
ToggleNavigationKeepsResult(s0) ==
  LET s == InitAudio(s0) IN
  IF s.emergencyLatch
  THEN Speak([s EXCEPT !.emergencyLatch = FALSE, !.appState = "IDLE"],
             Some(<<"System", "Reset">>), FALSE)
  ELSE IF s.appState = "SCANNING"
       THEN [Speak([s EXCEPT !.appState = "IDLE"], PausedText, FALSE)
               EXCEPT !.lastResponse = NullResponse]
       ELSE Speak([s EXCEPT !.appState = "SCANNING"], ActiveText, FALSE)

\* part_002 (second revision) empties detectedObjectsRef on reset and on pause
ClearDetections(s) == IF rev = "P2b" THEN [s EXCEPT !.detectedObjects = <<>>] ELSE s

\* toggleNavigation of part_002 and part_003: reset when latched, else toggle
ToggleNavigationHandler(s0) ==
  LET s == InitAudio(s0) IN
  IF s.emergencyLatch
  THEN Speak(ClearDetections([s EXCEPT !.emergencyLatch = FALSE, !.appState = "IDLE",
                                       !.lastResponse = NullResponse]),
             Some(<<"System", "Reset">>), FALSE)
  ELSE IF s.appState = "SCANNING"
       THEN ClearDetections([Speak([s EXCEPT !.appState = "IDLE"], PausedText, FALSE)
                               EXCEPT !.lastResponse = NullResponse])
       ELSE Speak([s EXCEPT !.appState = "SCANNING"], ActiveText, FALSE)

\* toggleScanning of App.tsx
ToggleScanningHandler(s0) ==
  LET s == InitAudio(s0) IN
  IF s.appState = "SCANNING"
  THEN Speak([s EXCEPT !.appState = "IDLE", !.lastResponse = NullResponse],
             Some(<<"System", "Paused">>), FALSE)
  ELSE Speak([s EXCEPT !.appState = "SCANNING"], Some(<<"Sonar", "Active">>), FALSE)

\* selectLanguage(index)
SelectLanguageHandler(s, index) ==
  Speak([s EXCEPT !.langIndex = index], Some(<<"language", "name">>), FALSE)

ToggleNavigation ==
  /\ rev # "A1"
  /\ mounted
  /\ Handle(ToggleNavigationHandler(Cur))

ToggleScanning ==
  /\ rev = "A1"
  /\ mounted
  /\ Handle(ToggleScanningHandler(Cur))

SelectLanguage ==
  /\ rev \in LanguageRevs
  /\ mounted
  /\ \E index \in Languages :
       Handle(SelectLanguageHandler(Cur, index))

(***************************************************************************)
(* Scan ticks and completions.                                             *)
(***************************************************************************)

\* a requestAnimationFrame callback of part_002 runs
AnimationFrame ==
  /\ rev \in RecursiveRevs
  /\ \E cl \in BagToSet(raf), frame \in CameraFrames :
       Step(IF rev = "P2a"
            THEN RunNavigationLoopP2a([Cur EXCEPT !.raf = @ (-) One(cl)], cl, frame)
            ELSE RunNavigationLoopP2b([Cur EXCEPT !.raf = @ (-) One(cl)], cl, frame),
            frame)

\* the setInterval timer fires
IntervalTick ==
  /\ interval # None
  /\ \E frame \in Frames :
       Step(IF rev = "A1" THEN RunGeminiCycle(Cur, interval[1], frame)
            ELSE RunNavigationLoopP3(Cur, interval[1], frame), frame)

\* the continuation of the scan cycle after its await, by revision
ScanResultHandler(s, cl, res) ==
  CASE rev = "P2a" -> ScanResultP2a(s, cl, res)
    [] rev = "P2b" -> ScanResultP2b(s, cl, res)
    [] rev = "P3" -> ScanResultP3(s, cl, res)
    [] rev = "A2" -> ScanResultA2(s, cl, res)
    [] OTHER -> ScanResultA1(s, cl, res)

\* a scan cycle's analyzeFrame call settles
ScanResult ==
  /\ inflight # EmptyBag
  /\ \E cl \in BagToSet(inflight), res \in AnalyzeResults :
       Handle(ScanResultHandler(Cur, cl, res))

(***************************************************************************)
(* Voice query: press and hold, release, and the recorder's onstop handler.*)
(***************************************************************************)

\* new MediaRecorder(stream) followed by start()
NewRecorder == [state |-> "recording", stopping |-> FALSE]

\* the recorders that are recording
Recording(rs) == {i \in 1..Len(rs) : rs[i].state = "recording"}

\* A recorder can still act while the ref holds it, while it records or while
\* its stop event is pending. The others are dropped and those left keep their
\* order. A chunk keeps its origin while that recorder can still fire its stop
\* event; afterwards its origin is 0.
Collect(s) ==
  LET fires(i) == s.recorders[i].state = "recording" \/ s.recorders[i].stopping
      live == {i \in 1..Len(s.recorders) : i = s.mediaRecorderRef \/ fires(i)}
      slot(i) == IF i \in live THEN Cardinality({j \in live : j <= i}) ELSE 0
      nth(k) == CHOOSE i \in live : slot(i) = k
      origin(i) == IF i # 0 /\ fires(i) THEN slot(i) ELSE 0
  IN [s EXCEPT !.recorders = [k \in 1..Cardinality(live) |-> s.recorders[nth(k)]],
               !.mediaRecorderRef = slot(s.mediaRecorderRef),
               !.audioChunksRef = [k \in 1..Len(s.audioChunksRef) |->
                                     origin(s.audioChunksRef[k])]]

\* sessions alive: pending microphone requests, recorders recording, running
\* handlers
Sessions(s) ==
  s.micPending + Cardinality(Recording(s.recorders)) + BagCardinality(s.voice)

\* the "hold to speak" button of part_002 and part_003 is disabled while
\* processing or latched; the button of App.tsx is never disabled
MicButtonEnabled ==
  mounted /\ (rev = "A1" \/ ~(isProcessingState \/ emergencyLatch))

\* Fault variant of startListening: no test of the latch.
StartListeningIgnoresLatch(s) ==
  [PlayBeep(IF rev = "A1" /\ s.appState # "SCANNING" THEN InitAudio(s)
            ELSE [(IF rev = "A1" THEN InitAudio(s) ELSE s) EXCEPT !.appState = "LISTENING"],
            600)
     EXCEPT !.micPending = @ + 1]

\* startListening up to the microphone request
StartListeningHandler(s) ==
  IF rev = "A1"
  THEN [PlayBeep(IF s.appState = "SCANNING"
                 THEN [InitAudio(s) EXCEPT !.appState = "LISTENING"]
                 ELSE InitAudio(s),
                 600) EXCEPT !.micPending = @ + 1]
  ELSE IF s.emergencyLatch THEN s
       ELSE [PlayBeep([s EXCEPT !.appState = "LISTENING"], 600)
               EXCEPT !.micPending = @ + 1]

\* getUserMedia resolved: a new recorder goes into the ref, the shared buffer is
\* replaced by an empty one, and the recorder starts
MicGrantedHandler(s) ==
  Collect([s EXCEPT !.micPending = @ - 1, !.recState = "recording",
                    !.recorders = Append(@, NewRecorder),
                    !.mediaRecorderRef = Len(s.recorders) + 1,
                    !.audioChunksRef = <<>>])

\* getUserMedia rejected: the catch block of part_002/part_003; App.tsx has none
MicDeniedHandler(s) ==
  IF rev = "A1" THEN [s EXCEPT !.micPending = @ - 1]
  ELSE [s EXCEPT !.micPending = @ - 1, !.appState = "IDLE"]

\* stopListening: stop() on the recorder in the ref when it is not inactive; the
\* recorder becomes inactive at once and its dataavailable and stop events are
\* queued
StopListeningHandler(s) ==
  IF s.mediaRecorderRef # 0 /\ s.recorders[s.mediaRecorderRef].state # "inactive"
  THEN LET s1 == [s EXCEPT !.recState = "inactive",
                           !.recorders[s.mediaRecorderRef] =
                              [state |-> "inactive", stopping |-> TRUE],
                           !.voice = @ (+) One("stopped")]
       IN IF rev = "A1" THEN s1 ELSE PlayBeep(s1, 400)
  ELSE s

\* the finally block of part_002's onstop handler
VoiceFinallyP2a(s) == [s EXCEPT !.appState = "IDLE", !.isProcessingState = FALSE]

\* the catch block of part_002's onstop handler: the first revision speaks an
\* error, the second only logs
VoiceCatchP2(s) ==
  IF rev = "P2a" THEN Speak(s, Some(<<"Error", "processing", "command">>), FALSE) ELSE s

\* the phrase for an empty transcript
Unclear == IF rev = "P2b" THEN Some(<<"Unclear.">>) ELSE Some(<<"Unclear.", "Try", "again.">>)

\* The dataavailable and stop events of recorder i, which it fires together:
\* ondataavailable pushes the chunk, whatever its size, into the buffer the ref
\* holds now, and onstop runs from its entry to its first await. part_002
\* returns, through its finally block, when the buffer is empty; otherwise the
\* blob is built from the whole buffer: for each chunk, whether recorder i
\* produced it. No revision looks at the size.
RecorderStoppedHandler(s, i, size) ==
  LET s0 == [s EXCEPT !.voice = @ (-) One("stopped"),
                      !.recorders[i].stopping = FALSE,
                      !.audioChunksRef = Append(@, i)]
      chunks == s0.audioChunksRef
  IN Collect(IF rev \in RecursiveRevs /\ Len(chunks) = 0
             THEN VoiceFinallyP2a(s0)
             ELSE [s0 EXCEPT !.voice = @ (+) One("encode"),
                             !.audioBlob = Some([k \in 1..Len(chunks) |-> chunks[k] = i])])

\* transcribeAudio settled with a transcript (heard) or the empty string; the
\* camera is asked for a shot, and of an unmounted component webcamRef.current
\* is null
TranscribeDoneHandler(s, heard, frame) ==
  LET s0 == [s EXCEPT !.voice = @ (-) One("transcribe")]
  IN CASE rev \in RecursiveRevs ->
            IF heard /\ frame # "gone"
            THEN (IF frame = "ok"
                  THEN [Speak(s0, Some(<<"Processing">>), FALSE)
                          EXCEPT !.voice = @ (+) One("analyze")]
                  ELSE VoiceFinallyP2a(s0))
            ELSE VoiceFinallyP2a(Speak(s0, Unclear, FALSE))
       [] rev \in {"P3", "A2"} ->
            IF heard /\ frame # "gone"
            THEN (IF frame = "ok"
                  THEN [Speak(s0, Some(<<"Processing">>), FALSE)
                          EXCEPT !.voice = @ (+) One("analyze")]
                  ELSE [s0 EXCEPT !.appState = "IDLE"])
            ELSE [Speak(s0, Unclear, FALSE) EXCEPT !.appState = "IDLE"]
       [] OTHER ->
            IF frame = "gone"
            THEN [s0 EXCEPT !.isProcessingState = FALSE, !.appState = "IDLE"]
            ELSE IF heard /\ frame = "ok"
            THEN [s0 EXCEPT !.voice = @ (+) One("analyze")]
            ELSE [Speak(s0, Some(<<"I", "couldn't", "hear", "you", "clearly.">>), FALSE)
                    EXCEPT !.isProcessingState = FALSE, !.appState = "IDLE"]

\* transcribeAudio(base64Audio) of App.tsx (second revision): the call passes no
\* mimeType, so transcribeAudio throws inside its try block before any remote
\* call and its catch block returns ""
NoMimeTranscript == TranscribeAudio(None, [threw |-> FALSE, text |-> <<>>]).value

\* blobToBase64 settled. In App.tsx (second revision) the transcript is there
\* without a remote call, so the handler goes on to its end in the same step.
EncodeDoneHandler(s, ok) ==
  LET s0 == [s EXCEPT !.voice = @ (-) One("encode")]
  IN CASE rev \in RecursiveRevs ->
            IF ok THEN [s0 EXCEPT !.appState = "PROCESSING_QUERY", !.isProcessingState = TRUE,
                                  !.voice = @ (+) One("transcribe")]
            ELSE VoiceFinallyP2a(VoiceCatchP2(s0))
       [] rev = "P3" ->
            IF ok THEN [s0 EXCEPT !.appState = "PROCESSING_QUERY",
                                  !.voice = @ (+) One("transcribe")]
            ELSE s0
       [] rev = "A2" ->
            IF ok THEN TranscribeDoneHandler(
                         [s0 EXCEPT !.appState = "PROCESSING_QUERY",
                                    !.voice = @ (+) One("transcribe")],
                         NoMimeTranscript # <<>>, "ok")
            ELSE s0
       [] OTHER ->
            IF ok THEN [Speak(PlayBeep(s0, 400), Some(<<"Processing...">>), FALSE)
                          EXCEPT !.isProcessingState = TRUE,
                                 !.voice = @ (+) One("transcribe")]
            ELSE s0

\* response.navigation_command + " " + response.reasoning_summary
AnswerText(response) ==
  Some((IF response.navigation_command = None THEN <<"undefined">>
        ELSE response.navigation_command[1])
       \o (IF response.reasoning_summary = None THEN <<"undefined">>
           ELSE response.reasoning_summary[1]))

\* the voice query's analyzeFrame call settled
VoiceAnalyzeDoneHandler(s, res) ==
  LET s0 == [s EXCEPT !.voice = @ (-) One("analyze")]
      s1 == [s0 EXCEPT !.lastResponse = res.value]
  IN CASE rev \in RecursiveRevs ->
            IF res.threw
            THEN VoiceFinallyP2a(VoiceCatchP2(s0))
            ELSE IF res.value.isNull
                 THEN VoiceFinallyP2a(VoiceCatchP2(s1))
                 ELSE VoiceFinallyP2a(Speak(s1, AnswerText(res.value), TRUE))
       [] rev \in {"P3", "A2"} ->
            IF res.threw THEN s0
            ELSE IF res.value.isNull THEN s1
                 ELSE [Speak(s1, AnswerText(res.value), TRUE) EXCEPT !.appState = "IDLE"]
       [] OTHER ->
            IF res.threw THEN s0
            ELSE IF res.value.isNull THEN s1
                 ELSE [Speak(s1, res.value.reasoning_summary, TRUE)
                         EXCEPT !.isProcessingState = FALSE, !.appState = "IDLE"]

StartListening ==
  /\ MicButtonEnabled
  /\ Sessions(Cur) < MaxVoice
  /\ Handle(StartListeningHandler(Cur))

MicGranted ==
  /\ micPending > 0
  /\ Handle(MicGrantedHandler(Cur))

MicDenied ==
  /\ micPending > 0
  /\ Handle(MicDeniedHandler(Cur))

StopListening ==
  /\ MicButtonEnabled
  /\ Handle(StopListeningHandler(Cur))

\* the recorder's stop event: the onstop handler up to the await of the encoding
RecorderStoppedWith(size) ==
  \E i \in {j \in 1..Len(recorders) : recorders[j].stopping} :
    Handle(RecorderStoppedHandler(Cur, i, size))

RecorderStopped == \E size \in RecordingSizes : RecorderStoppedWith(size)

EncodeDone ==
  /\ BagIn("encode", voice)
  /\ \E ok \in BOOLEAN :
       Handle(EncodeDoneHandler(Cur, ok))

\* the shots the camera can give the handler; with an empty transcript every
\* shot of a mounted component ends the handler the same way, so one stands for all
Shots(heard) == IF heard \/ ~mounted THEN CameraFrames ELSE {"ok"}

TranscribeDone ==
  /\ BagIn("transcribe", voice)
  /\ \E heard \in BOOLEAN :
     \E shot \in Shots(heard) :
       Handle(TranscribeDoneHandler(Cur, heard, shot))

VoiceAnalyzeDone ==
  /\ BagIn("analyze", voice)
  /\ \E res \in AnalyzeResults :
       Handle(VoiceAnalyzeDoneHandler(Cur, res))

\* a handler's result goes through the render while the control goes down or up
StepHolding(s, frame, down) ==
  /\ StepWith(s, frame)
  /\ held' = down

\* the control goes down: onMouseDown / onTouchStart call startListening
Press ==
  /\ ~held
  /\ MicButtonEnabled
  /\ Sessions(Cur) < MaxVoice
  /\ \E frame \in EffectFrames(StartListeningHandler(Cur)) :
       StepHolding(StartListeningHandler(Cur), frame, TRUE)

\* the control goes up: onMouseUp / onTouchEnd call stopListening
Release ==
  /\ held
  /\ MicButtonEnabled
  /\ \E frame \in EffectFrames(StopListeningHandler(Cur)) :
       StepHolding(StopListeningHandler(Cur), frame, FALSE)

(***************************************************************************)
(* Local detector: the render and detection loop of App.tsx (first         *)
(* component) and of part_002 (second revision).                           *)
(***************************************************************************)

\* the revisions that run the local detector
DetectorRevs == {"A1", "P2b"}
\* what one detect() pass can find
Detections == {<<>>, <<"person">>, <<"chair">>}

\* loadModel settles: the model is stored in netRef and setModelLoaded(true)
\* asks for a render, or the failure is logged
ModelLoadSettlesHandler(s, loaded) ==
  [s EXCEPT !.netRef = IF loaded THEN "loaded" ELSE "failed"]

ModelLoadSettles ==
  /\ rev \in DetectorRevs
  /\ netRef = "loading"
  /\ \E loaded \in BOOLEAN : Handle(ModelLoadSettlesHandler(Cur, loaded))

\* the render loop runs once, whatever the video gives it
RenderTick ==
  /\ rev \in DetectorRevs
  /\ mounted
  /\ \E frame \in Frames : Handle(RenderTickHandler(Cur, frame))

\* fault variant: a rejected pass that also stops the scan loop
DetectSettlesStopsLoop(s, found) ==
  IF found = None
  THEN [s EXCEPT !.isDetectingRef = FALSE, !.detectInflight = @ - 1,
                 !.detectOutcome = "rejected", !.appState = "IDLE"]
  ELSE [s EXCEPT !.detectedObjects = found[1], !.isDetectingRef = FALSE,
                 !.detectInflight = @ - 1, !.detectOutcome = "resolved"]

\* a detect() pass settles: then() stores the detections and releases the lock,
\* catch() (found = None) logs the error and releases the lock
DetectSettlesHandler(s, found) ==
  IF found = None
  THEN [s EXCEPT !.isDetectingRef = FALSE, !.detectInflight = @ - 1,
                 !.detectOutcome = "rejected"]
  ELSE [s EXCEPT !.detectedObjects = found[1], !.isDetectingRef = FALSE,
                 !.detectInflight = @ - 1, !.detectOutcome = "resolved"]

DetectSettles ==
  /\ detectInflight > 0
  /\ \E found \in {None} \cup {Some(d) : d \in Detections} :
       Handle(DetectSettlesHandler(Cur, found))

(***************************************************************************)
(* The audio utilities called one by one.                                  *)
(***************************************************************************)

\* one call of an audio utility from outside the component
AudioCall(c) ==
  LET a == AfterCall(AudioModule, audioRev, stereoPanner, c)
  IN /\ constructed < MaxContexts
     /\ audioCtx' = a.audioCtx
     /\ constructed' = a.constructed
     /\ returned' = a.returned
     /\ audioCall' = a.audioCall
     /\ sound' = a.sound
     /\ UNCHANGED <<audioRev, stereoPanner, ctl, det, gw, spoken, rcd, held>>

\* getAudioContext is not exported by U3
CallGetAudioContext ==
  /\ audioRev # "U3"
  /\ AudioCall(Call("getAudioContext", None, None))

CallPlayBeep ==
  /\ audioRev \in AudioRevs
  /\ AudioCall(Call("playBeep", None, None))

CallPlayRawPCM ==
  /\ audioRev \in RawPCMRevs
  /\ \E data \in PCMInputs : AudioCall(Call("playRawPCM", None, data))

CallPlayCautionSound ==
  /\ audioRev \in CautionRevs
  /\ \E pan \in PanArgs : AudioCall(Call("playCautionSound", pan, None))

CallPlaySonarPing ==
  /\ audioRev \in AudioRevs
  /\ \E pan \in PanArgs : AudioCall(Call("playSonarPing", pan, None))

(***************************************************************************)
(* The component: initial state and next-state relation.                   *)
(***************************************************************************)
GwIdle ==
  /\ gwPc = "idle"
  /\ gwCalls = <<>>
  /\ gwPrimary = None
  /\ gwFallback = None
  /\ gwGen = [threw |-> FALSE, text |-> <<>>]
  /\ gwOut = [threw |-> FALSE, value |-> NullResponse]
  /\ gwTask = "none"
  /\ gwText = [threw |-> FALSE, value |-> <<>>]
  /\ gwSpeech = None
  /\ gwAudio = [threw |-> FALSE, value |-> None]
  /\ gwMime = None

\* the entry points that go through generateWithFallback
FallbackTasks == {"analyzeFrame", "transcribeAudio"}

\* analyzeFrame or transcribeAudio is called: generateWithFallback calls the
\* primary model, unless transcribeAudio threw before on an undefined mimeType
GwCall ==
  /\ gwPc = "idle"
  /\ \E task \in FallbackTasks :
       \E mimeType \in (IF task = "transcribeAudio" THEN MimeTypes ELSE {None}) :
         /\ gwTask' = task
         /\ gwMime' = mimeType
         /\ IF task = "transcribeAudio" /\ TranscribeTry(mimeType, gwGen).threw
            THEN gwPc' = "thrown" /\ gwCalls' = <<>>
            ELSE gwPc' = "primary" /\ gwCalls' = <<"gemini-2.5-flash">>
  /\ UNCHANGED <<gwPrimary, gwFallback, gwGen, gwOut, gwText, gwSpeech, gwAudio>>
  /\ UNCHANGED <<ctl, det, aud, spoken, rcd, held>>
  /\ Quiet

\* Fault variant of the primary call settling: a response whose text is not JSON
\* is retried on the fallback model as well.
GwPrimarySettlesRetriesBadJson ==
  /\ gwPc = "primary"
  /\ \E o \in Outcomes :
       /\ gwPrimary' = Some(o)
       /\ IF o.ok /\ JsonParses(CleanText(o.text))
          THEN /\ gwGen' = [threw |-> FALSE, text |-> o.text]
               /\ gwPc' = "settled"
               /\ gwCalls' = gwCalls
          ELSE IF o.ok \/ IsRetryable(o)
               THEN /\ gwPc' = "fallback"
                    /\ gwCalls' = Append(gwCalls, "gemini-3-pro-preview")
                    /\ gwGen' = gwGen
               ELSE /\ gwGen' = [threw |-> TRUE, text |-> <<>>]
                    /\ gwPc' = "settled"
                    /\ gwCalls' = gwCalls
  /\ UNCHANGED <<gwFallback, gwOut, gwTask, gwText, gwSpeech, gwAudio>>
  /\ UNCHANGED <<gwMime, ctl, det, aud, spoken, rcd, held>>
  /\ Quiet

\* the primary call settles: return the response, retry on the fallback model,
\* or rethrow
GwPrimarySettles ==
  /\ gwPc = "primary"
  /\ \E o \in Outcomes :
       /\ gwPrimary' = Some(o)
       /\ IF o.ok
          THEN /\ gwGen' = [threw |-> FALSE, text |-> o.text]
               /\ gwPc' = "settled"
               /\ gwCalls' = gwCalls
          ELSE IF IsRetryable(o)
               THEN /\ gwPc' = "fallback"
                    /\ gwCalls' = Append(gwCalls, "gemini-3-pro-preview")
                    /\ gwGen' = gwGen
               ELSE /\ gwGen' = [threw |-> TRUE, text |-> <<>>]
                    /\ gwPc' = "settled"
                    /\ gwCalls' = gwCalls
  /\ UNCHANGED <<gwFallback, gwOut, gwTask, gwText, gwSpeech, gwAudio>>
  /\ UNCHANGED <<gwMime, ctl, det, aud, spoken, rcd, held>>
  /\ Quiet

\* the fallback call settles: return its response or rethrow its error
GwFallbackSettles ==
  /\ gwPc = "fallback"
  /\ \E o \in Outcomes :
       /\ gwFallback' = Some(o)
       /\ gwGen' = IF o.ok THEN [threw |-> FALSE, text |-> o.text]
                   ELSE [threw |-> TRUE, text |-> <<>>]
  /\ gwPc' = "settled"
  /\ UNCHANGED <<gwCalls, gwPrimary, gwOut, gwTask, gwText, gwSpeech, gwAudio>>
  /\ UNCHANGED <<gwMime, ctl, det, aud, spoken, rcd, held>>
  /\ Quiet

\* the rest of analyzeFrame: clean, parse, or fall back
GwReturn ==
  /\ gwPc = "settled"
  /\ gwTask = "analyzeFrame"
  /\ gwOut' = AnalyzeFrame(gwGen)
  /\ gwPc' = "done"
  /\ UNCHANGED <<gwCalls, gwPrimary, gwFallback, gwGen, gwTask, gwText, gwSpeech, gwAudio>>
  /\ UNCHANGED <<gwMime, ctl, det, aud, spoken, rcd, held>>
  /\ Quiet

\* the rest of transcribeAudio: the text, or the empty string
GwTranscribeReturn ==
  /\ gwPc \in {"settled", "thrown"}
  /\ gwTask = "transcribeAudio"
  /\ gwText' = TranscribeAudio(gwMime, gwGen)
  /\ gwPc' = "transcribed"
  /\ UNCHANGED <<gwCalls, gwPrimary, gwFallback, gwGen, gwOut, gwTask, gwSpeech, gwAudio>>
  /\ UNCHANGED <<gwMime, ctl, det, aud, spoken, rcd, held>>
  /\ Quiet

\* generateSpeech is called: one generateContent call on the speech model
GwSpeechCall ==
  /\ gwPc = "idle"
  /\ gwPc' = "speech"
  /\ gwTask' = "generateSpeech"
  /\ UNCHANGED <<gwCalls, gwPrimary, gwFallback, gwGen, gwOut, gwText, gwSpeech, gwAudio>>
  /\ UNCHANGED <<gwMime, ctl, det, aud, spoken, rcd, held>>
  /\ Quiet

\* The quality path of speak(text, true) for a non-empty text, after
\* generateSpeech returned audio: without a payload the function ends; a
\* payload atob() rejects is spoken by speechSynthesis in the catch block; any
\* other is handed to decodeAudioData, which speak awaits.
SpeakHighQuality(audio, encoded) ==
  IF audio # None
  THEN IF encoded THEN "decoding" ELSE "synthesis"
  ELSE "silent"

\* after the await of decodeAudioData: the buffer is played, or the catch block
\* speaks the text by speechSynthesis
SpeakDecoded(decodes) == IF decodes THEN "tts" ELSE "synthesis"

\* The speech call settles, generateSpeech returns and speak, which awaited it,
\* goes on in the same task: getAudioContext first, which constructs the device
\* while there is none, then the payload. A generateSpeech that threw would end
\* speak there.
GwSpeechSettles ==
  /\ gwPc = "speech"
  /\ \E o \in SpeechOutcomes, encoded \in BOOLEAN :
       /\ gwSpeech' = Some(o)
       /\ gwAudio' = GenerateSpeech(o)
       /\ IF GenerateSpeech(o).threw
          THEN /\ spoken' = "silent"
               /\ gwPc' = "played"
               /\ Quiet
               /\ UNCHANGED <<audioCtx, constructed, returned>>
          ELSE LET a == AfterCall(AudioModule, audioRev, stereoPanner,
                                  Call("getAudioContext", None, None))
               IN /\ spoken' = SpeakHighQuality(GenerateSpeech(o).value, encoded)
                  /\ gwPc' = IF SpeakHighQuality(GenerateSpeech(o).value, encoded) = "decoding"
                             THEN "decoding" ELSE "played"
                  /\ audioCtx' = a.audioCtx
                  /\ constructed' = a.constructed
                  /\ returned' = a.returned
                  /\ audioCall' = a.audioCall
                  /\ sound' = a.sound
  /\ UNCHANGED <<gwCalls, gwPrimary, gwFallback, gwGen, gwOut, gwTask, gwText>>
  /\ UNCHANGED <<gwMime, audioRev, stereoPanner, ctl, det, rcd, held>>

\* decodeAudioData settles and speak goes on to its end
GwDecodeSettles ==
  /\ gwPc = "decoding"
  /\ \E decodes \in BOOLEAN : spoken' = SpeakDecoded(decodes)
  /\ gwPc' = "played"
  /\ UNCHANGED <<gwCalls, gwPrimary, gwFallback, gwGen, gwOut, gwTask, gwText, gwSpeech,
                 gwAudio, gwMime>>
  /\ UNCHANGED <<ctl, det, aud, rcd, held>>
  /\ Quiet

\* the caller has its result; the next invocation starts afresh
GwDone ==
  /\ gwPc \in {"done", "transcribed", "played"}
  /\ gwPc' = "idle"
  /\ gwCalls' = <<>>
  /\ gwPrimary' = None
  /\ gwFallback' = None
  /\ gwGen' = [threw |-> FALSE, text |-> <<>>]
  /\ gwOut' = [threw |-> FALSE, value |-> NullResponse]
  /\ gwTask' = "none"
  /\ gwText' = [threw |-> FALSE, value |-> <<>>]
  /\ gwSpeech' = None
  /\ gwAudio' = [threw |-> FALSE, value |-> None]
  /\ gwMime' = None
  /\ spoken' = "none"
  /\ UNCHANGED <<ctl, det, aud, rcd, held>>
  /\ Quiet

GatewayNext ==
  \/ GwCall
  \/ GwPrimarySettles
  \/ GwFallbackSettles
  \/ GwReturn
  \/ GwTranscribeReturn
  \/ GwSpeechCall
  \/ GwSpeechSettles
  \/ GwDecodeSettles
  \/ GwDone

\* startListening with room for sessions side by side: nothing in it looks at
\* the recorder in the ref or at requests still pending
StartListeningCall ==
  /\ MicButtonEnabled
  /\ Sessions(Cur) < MaxSessions
  /\ Handle(StartListeningHandler(Cur))

RecorderNext ==
  \/ StartListeningCall
  \/ MicGranted
  \/ MicDenied
  \/ StopListening
  \/ RecorderStopped
  \/ EncodeDone
  \/ TranscribeDone
  \/ VoiceAnalyzeDone

\* the state after the modules are loaded and the component is mounted
Loaded ==
  /\ rev \in Revisions
  /\ appState = "IDLE"
  /\ lastResponse = NullResponse
  /\ isProcessingState = FALSE
  /\ emergencyLatch = FALSE
  /\ langIndex = 0
  /\ isProcessingRef = FALSE
  /\ inflight = EmptyBag
  /\ raf = EmptyBag
  /\ interval = None
  /\ micPending = 0
  /\ recState = "null"
  /\ voice = EmptyBag
  /\ detectedObjects = <<>>
  /\ mounted = TRUE
  /\ netRef = "loading"
  /\ isDetectingRef = FALSE
  /\ detectInflight = 0
  /\ detectOutcome = "none"
  /\ out = <<>>
  /\ GwIdle
  /\ spoken = "none"
  /\ recorders = <<>>
  /\ mediaRecorderRef = 0
  /\ audioChunksRef = <<>>
  /\ audioBlob = None
  /\ held = FALSE
  /\ audioCtx = None
  /\ constructed = 0
  /\ returned = None
  /\ audioCall = None
  /\ sound = None
  /\ stereoPanner \in BOOLEAN

\* the component runs beside the audio utilities of src/utils/audioUtils.ts
Init == Loaded /\ audioRev = "U1" /\ stereoPanner

Next ==
  \/ ToggleNavigation
  \/ ToggleScanning
  \/ SelectLanguage
  \/ AnimationFrame
  \/ IntervalTick
  \/ ScanResult
  \/ StartListening
  \/ MicGranted
  \/ MicDenied
  \/ StopListening
  \/ RecorderStopped
  \/ EncodeDone
  \/ TranscribeDone
  \/ VoiceAnalyzeDone

Spec == Init /\ [][Next]_vars

\* one gateway invocation after another, the component at rest
GatewayInit == Init /\ rev = "A1"
GatewaySpec == GatewayInit /\ [][GatewayNext]_vars

\* The same component with what the browser guarantees: a due timer or animation
\* frame fires, an awaited promise settles, a stopped recorder fires its event.
\* What the user does is left unconstrained.
FairSpec ==
  /\ Spec
  /\ WF_vars(AnimationFrame)
  /\ WF_vars(IntervalTick)
  /\ WF_vars(ScanResult)
  /\ WF_vars(MicGranted \/ MicDenied)
  /\ WF_vars(RecorderStopped)
  /\ WF_vars(EncodeDone)
  /\ WF_vars(TranscribeDone)
  /\ WF_vars(VoiceAnalyzeDone)

\* the recorder on its own, the rest of the component at rest
RecorderSpec == Init /\ [][RecorderNext]_vars

\* Press and release of the hold-to-speak control with the microphone request
\* and the onstop handler in between, the scan loop at rest; a pending promise
\* settles and a stopped recorder fires its event.
PressNext ==
  \/ Press
  \/ Release
  \/ MicGranted
  \/ MicDenied
  \/ RecorderStopped
  \/ EncodeDone
  \/ TranscribeDone
  \/ VoiceAnalyzeDone

PressSpec ==
  /\ Init
  /\ [][PressNext]_vars
  /\ WF_vars(MicGranted \/ MicDenied)
  /\ WF_vars(RecorderStopped)
  /\ WF_vars(EncodeDone)
  /\ WF_vars(TranscribeDone)
  /\ WF_vars(VoiceAnalyzeDone)

(***************************************************************************)
(* Properties.                                                             *)
(***************************************************************************)

\* scan-cycle analyzeFrame calls awaiting their result
InFlight == BagCardinality(inflight)
\* a scan tick: an animation-frame callback or the interval timer
ScanTick == AnimationFrame \/ IntervalTick
\* the step's output holds the utterance text, spoken by the browser's voice
Says(o, text) == \E i \in 1..Len(o) : o[i] = <<"speak", text[1], FALSE>>
\* ToggleNavigation can be taken: its guard, and that of the step it makes
CanToggleNavigation ==
  /\ rev # "A1"
  /\ mounted
  /\ \E frame \in EffectFrames(ToggleNavigationHandler(Cur)) :
       /\ Chains(Commit(Cur, ToggleNavigationHandler(Cur), frame)) <= MaxChains
       /\ Commit(Cur, ToggleNavigationHandler(Cur), frame).detectInflight <= MaxDetect
\* the state a reset leaves: its utterance is the step's only output
ResetDone == out = <<<<"speak", <<"System", "Reset">>, FALSE>>>>
\* the outcome of the last remote call a gateway invocation made
Obtained == IF gwFallback # None THEN gwFallback[1] ELSE gwPrimary[1]
\* no parsable response was obtained: the last call rejected, or its text is
\* empty, or what is left of it after cleaning is not one JSON value
Unparsable ==
  \/ ~Obtained.ok
  \/ Obtained.text = <<>>
  \/ ~JsonParses(CleanText(Obtained.text))

\* C1: in every reachable state at most one scan-cycle analyzeFrame call is in
\* flight, whatever the interleaving of ticks, reschedules, toggles, language
\* changes, effect cleanups and completions.
C1_SingleFlight == InFlight <= 1

\* C2: a scan result with safety_status STOP sets the latch, and while the latch
\* is set no step starts a further scan-cycle analyzeFrame call.
C2_LatchHaltsScanning ==
  [][ /\ (ScanResult /\ lastResponse' # lastResponse
            /\ lastResponse'.safety_status = "STOP") => emergencyLatch'
      /\ emergencyLatch => BagCardinality(inflight') <= InFlight ]_vars

\* C3: when a gateway invocation obtained no parsable response, analyzeFrame
\* returns safety_status STOP, stereo_pan 0 and empty hazards and safe_path
\* lists, never SAFE or CAUTION.
C3_FailSafeFallback ==
  (gwPc = "done" /\ Unparsable) =>
    /\ ~gwOut.threw
    /\ gwOut.value.safety_status = "STOP"
    /\ gwOut.value.stereo_pan = Some(0)
    /\ gwOut.value.hazards = Some(<<>>)
    /\ gwOut.value.safe_path = Some(<<>>)

C3_Witness ==
  /\ gwPc = "done"
  /\ Len(gwCalls) = 2
  /\ ~gwPrimary[1].ok
  /\ ~gwFallback[1].ok
  /\ gwOut.value = FallbackResponse

\* C4: whatever the remote calls did, analyzeFrame hands its caller a value and
\* never an exception: the fallback response, or the value parsed from the text.
C4_AnalyzeFrameTotal ==
  gwPc = "done" =>
    /\ ~gwOut.threw
    /\ IF Unparsable THEN gwOut.value = FallbackResponse
       ELSE gwOut.value = JsonValue(CleanText(Obtained.text)[1])

C4_Witness ==
  /\ gwPc = "done"
  /\ gwPrimary[1].ok
  /\ gwPrimary[1].text # <<>>
  /\ ~JsonParses(CleanText(gwPrimary[1].text))
  /\ ~gwOut.threw

\* at most two remote calls per invocation, the primary model first, the
\* fallback model second and only after the primary call settled
CallOrder ==
  /\ Len(gwCalls) <= 2
  /\ gwCalls # <<>> => gwCalls[1] = "gemini-2.5-flash"
  /\ Len(gwCalls) = 2 => (gwCalls[2] = "gemini-3-pro-preview" /\ gwPrimary # None)
  /\ gwFallback # None => Len(gwCalls) = 2

\* C5 as stated: once the primary call has settled, the fallback model is called
\* exactly when the primary call failed with status 429, 500 or 503; at most
\* two calls, primary before fallback.
C5_RetryOnStatusOnly ==
  /\ CallOrder
  /\ gwPrimary # None =>
       (Len(gwCalls) = 2 <=>
          (~gwPrimary[1].ok /\ gwPrimary[1].status \in {429, 500, 503}))

\* C5: once the primary call has settled, the fallback model is called exactly
\* when the primary call failed with status 429, 500 or 503 or with an error
\* whose message contains "429"; at most two calls, primary before fallback.
C5_RetryPolicy ==
  /\ CallOrder
  /\ gwPrimary # None =>
       (Len(gwCalls) = 2 <=>
          (~gwPrimary[1].ok
             /\ (gwPrimary[1].status \in {429, 500, 503} \/ gwPrimary[1].msg429)))

C5_Witness ==
  /\ gwPc = "done"
  /\ gwCalls = <<"gemini-2.5-flash", "gemini-3-pro-preview">>
  /\ gwPrimary[1].status = 503
  /\ gwFallback[1].ok

\* C6: the loop is in ProcessingQuery only while a stop-recording handler is
\* still running; once every handler has ended the loop has left that state.
C6_NeverStuckProcessing ==
  appState = "PROCESSING_QUERY" => voice # EmptyBag

\* C7: a scan tick that finds the lock held or the latch set starts no call,
\* plays no sound, leaves lock, indicator, last result, latch and LoopState as
\* they are, and queues nothing.
C7_GatedTickNoEffect ==
  [][ (ScanTick /\ (isProcessingRef \/ emergencyLatch)) =>
        /\ inflight' = inflight
        /\ out' = <<>>
        /\ UNCHANGED <<isProcessingRef, isProcessingState, lastResponse,
                       emergencyLatch, appState>>
        /\ BagCardinality(raf') <= BagCardinality(raf)
        /\ interval' = interval ]_vars

\* C8: the latch goes from false to true only in a step that processes a scan
\* result with safety_status STOP, and from true to false only in the reset.
C8_LatchChanges ==
  [][ /\ (~emergencyLatch /\ emergencyLatch') =>
            (ScanResult /\ lastResponse'.safety_status = "STOP")
      /\ (emergencyLatch /\ ~emergencyLatch') => (ToggleNavigation /\ ResetDone') ]_vars

C8_Witness ==
  /\ emergencyLatch
  /\ lastResponse.safety_status = "STOP"
  /\ out # <<>>
  /\ out[1] = <<"beep", 1000>>

\* C9 as stated: after a reset a scan-cycle analyzeFrame call is in flight again
\* with no further user action.
C9_ResumesAfterReset == ResetDone ~> (InFlight > 0)

\* C9: the reset leaves the loop Idle and starts or schedules no scan cycle; the
\* user's next toggle puts the loop in Scanning and starts a scan-cycle call or
\* schedules the next tick.
C9_ResumesOnToggle ==
  [][ /\ (emergencyLatch /\ Says(out', Some(<<"System", "Reset">>)) /\ ToggleNavigation) =>
            /\ appState' = "IDLE"
            /\ inflight' = inflight
            /\ raf' = raf
            /\ interval' = None
      /\ (/\ ~emergencyLatch
          /\ appState # "SCANNING"
          /\ Says(out', ActiveText)
          /\ ToggleNavigation) =>
            /\ appState' = "SCANNING"
            /\ \/ BagCardinality(inflight') > InFlight
               \/ BagCardinality(raf') > BagCardinality(raf)
               \/ interval' # None ]_vars

C9_Witness ==
  /\ ResetDone
  /\ appState = "IDLE"
  /\ inflight = EmptyBag
  /\ raf = EmptyBag
  /\ interval = None

\* C10: whenever the latch is set the reset of the mounted component can be
\* taken, whatever the LoopState, and it leaves LoopState Idle, the latch false
\* and no last result.
C10_Reset ==
  /\ []((mounted /\ emergencyLatch) => CanToggleNavigation)
  /\ [][ (/\ emergencyLatch
          /\ Says(out', Some(<<"System", "Reset">>))
          /\ ToggleNavigation) =>
           /\ appState' = "IDLE"
           /\ ~emergencyLatch'
           /\ lastResponse' = NullResponse ]_vars

C10_Witness ==
  /\ ResetDone
  /\ ~emergencyLatch
  /\ lastResponse = NullResponse
  /\ rev \in RecursiveRevs

\* C11: the stop-recording handler of a recording below the minimum size (a
\* chunk that holds nothing, or a click) aborts at once: it goes on to no
\* encoding, transcription or analysis, and the loop is Idle.
C11_ShortRecordingAborts ==
  [][ (RecorderStoppedWith("none") \/ RecorderStoppedWith("click")) =>
        /\ BagCardinality(voice') < BagCardinality(voice)
        /\ appState' = "IDLE" ]_vars

\* C12: every result analyzeFrame hands over has a numeric stereo_pan and
\* hazards and safe_path lists, whatever the remote JSON left out.
C12_ResultValidated ==
  gwPc = "done" =>
    /\ ~gwOut.value.isNull
    /\ gwOut.value.stereo_pan # None
    /\ gwOut.value.hazards # None
    /\ gwOut.value.safe_path # None

\* C13: when the text of the response is not JSON, analyzeFrame returns the fixed
\* STOP response and no remote call follows the one that brought the text: a
\* primary response is never retried on the fallback model.
C13_ParseFailureIsHard ==
  (gwPc = "done" /\ Obtained.ok /\ ~JsonParses(CleanText(Obtained.text))) =>
    /\ gwOut = [threw |-> FALSE, value |-> FallbackResponse]
    /\ gwPrimary[1].ok => (Len(gwCalls) = 1 /\ gwFallback = None)
    /\ ~gwPrimary[1].ok => Len(gwCalls) = 2

C13_Witness ==
  /\ gwPc = "done"
  /\ gwPrimary[1].ok
  /\ gwPrimary[1].text = <<"Sorry">>
  /\ gwCalls = <<"gemini-2.5-flash">>
  /\ gwOut.value = FallbackResponse

\* C14: transcribeAudio calls the fallback model exactly when the primary call
\* failed with a retryable error, as analyzeFrame does, and it hands its caller
\* the text of the response, or the empty string when the last call failed or
\* brought no text; it never throws.
C14_TranscribeAudio ==
  gwTask = "transcribeAudio" =>
    /\ CallOrder
    /\ gwPrimary # None =>
         (Len(gwCalls) = 2 <=>
            (~gwPrimary[1].ok
               /\ (gwPrimary[1].status \in {429, 500, 503} \/ gwPrimary[1].msg429)))
    /\ gwPc = "transcribed" =>
         /\ ~gwText.threw
         /\ gwText.value = IF gwPrimary # None /\ Obtained.ok THEN Obtained.text ELSE <<>>

C14_Witness ==
  /\ gwPc = "transcribed"
  /\ Len(gwCalls) = 2
  /\ ~gwFallback[1].ok
  /\ gwText = [threw |-> FALSE, value |-> <<>>]

\* C15: generateSpeech hands its caller the payload when the response carries
\* inline audio data and null in every other case; it never throws.
C15_GenerateSpeech ==
  gwSpeech # None =>
    /\ ~gwAudio.threw
    /\ gwAudio.value =
         IF gwSpeech[1].ok /\ gwSpeech[1].data # None /\ gwSpeech[1].data[1] \in AudioPayloads
         THEN gwSpeech[1].data
         ELSE None

C15_Witness ==
  /\ gwSpeech # None
  /\ ~gwSpeech[1].ok
  /\ gwAudio = [threw |-> FALSE, value |-> None]

\* The local detector beside the scan loop and its controls. The voice query is
\* left out: it touches none of the detector's variables.
DetectorInit == Init /\ rev \in DetectorRevs
DetectorNext ==
  \/ ModelLoadSettles
  \/ RenderTick
  \/ DetectSettles
  \/ ToggleNavigation
  \/ ToggleScanning
  \/ SelectLanguage
  \/ AnimationFrame
  \/ IntervalTick
  \/ ScanResult
DetectorSpec == DetectorInit /\ [][DetectorNext]_vars

\* C16: the local detector is single-flight. At most one detect() pass is in
\* flight and the lock is held exactly while it is; a render tick that finds the
\* lock held starts no pass; a pass that settles, resolved or rejected, leaves
\* the lock free.
C16_DetectorSingleFlight ==
  /\ [](detectInflight <= 1 /\ (isDetectingRef <=> detectInflight = 1))
  /\ [][ /\ (RenderTick /\ isDetectingRef) => detectInflight' = detectInflight
         /\ DetectSettles => ~isDetectingRef' ]_vars
\* a second pass is in flight after an earlier one stored its boxes
C16_Witness ==
  /\ isDetectingRef
  /\ detectInflight = 1
  /\ detectOutcome = "resolved"
  /\ detectedObjects = <<"person">>

\* C17: after a detector pass that failed the stored detection list is empty
C17_FailedPassClearsBoxes ==
  detectOutcome = "rejected" => detectedObjects = <<>>

\* C18: a step of the local detector (the model load settling and the render it
\* asks for, a render tick starting a pass or not, a pass resolving or
\* rejecting) leaves appState, emergencyLatch, the scan lock, the processing
\* indicator and the last result unchanged; it starts, ends and schedules no
\* scan cycle.
C18_DetectorFrame ==
  [][ (ModelLoadSettles \/ RenderTick \/ DetectSettles) =>
        UNCHANGED <<appState, emergencyLatch, isProcessingRef, isProcessingState,
                    lastResponse, inflight, raf, interval>> ]_vars
\* a detector pass was rejected while a scan was in flight and the loop Scanning
C18_Witness ==
  /\ detectOutcome = "rejected"
  /\ appState = "SCANNING"
  /\ isProcessingRef
  /\ lastResponse # NullResponse

\* The audio utilities called in any order, in each revision of the module.
AudioInit == Loaded /\ rev = "A1" /\ audioRev \in AudioRevs
AudioNext ==
  \/ CallGetAudioContext
  \/ CallPlayBeep
  \/ CallPlayRawPCM
  \/ CallPlayCautionSound
  \/ CallPlaySonarPing
AudioSpec == AudioInit /\ [][AudioNext]_vars

\* C19: the audio device is a singleton. Over any interleaving of
\* getAudioContext, playBeep, playSonarPing, playCautionSound and playRawPCM it
\* is constructed at most once, exactly when the first call finds none, and
\* every call obtains that one instance.
C19_AudioSingleton ==
  /\ constructed <= 1
  /\ (audioCtx = None) = (constructed = 0)
  /\ audioCall # None =>
       /\ returned = Some(1)
       /\ audioCtx = returned
       /\ constructed = 1
\* a later playRawPCM found the device already constructed and obtained it
C19_Witness ==
  /\ audioCall # None
  /\ audioCall[1].fn = "playRawPCM"
  /\ ~audioCall[1].created
  /\ returned = Some(1)
  /\ constructed = 1

\* the graph a ping or a pulse starts for pan
PanGraph(fn, u, stereo, pan) ==
  IF fn = "playSonarPing" THEN SonarPingGraph(u, stereo, pan)
  ELSE CautionSoundGraph(u, stereo, pan)

\* The last call was a ping or a pulse and behaved as one for lim: it started
\* the graph the call for lim starts, every panning node placed carries lim, and
\* in the revision with a PannerNode fallback (U1) both paths place a panning node.
BehavesAs(lim) ==
  /\ sound = PanGraph(audioCall[1].fn, audioRev, audioCall[1].stereo, Some(lim))
  /\ (sound # None /\ sound[1].node # "none") => sound[1].pan = Some(lim)
  /\ audioRev = "U1" =>
       /\ sound # None
       /\ sound[1].node = IF audioCall[1].stereo THEN "stereo" ELSE "hrtf"

\* min(1, max(-1, pan)) as the claim writes it
Limited(pan) ==
  IF pan > PanUnit THEN PanUnit ELSE IF pan < 0 - PanUnit THEN 0 - PanUnit ELSE pan

\* C20: for every pan input playSonarPing and playCautionSound apply
\* min(1, max(-1, pan)) to the panner on both paths: the call behaves as the
\* call for a value of [-1, 1], which for a pan above 1 is 1, for a pan below -1
\* is -1 and for a pan in between is the pan itself.
C20_PanClamped ==
  (audioCall # None /\ audioCall[1].fn \in {"playSonarPing", "playCautionSound"}) =>
    \E lim \in (0 - PanUnit)..PanUnit :
      /\ audioCall[1].pan # None => lim = Limited(audioCall[1].pan[1])
      /\ BehavesAs(lim)

\* what does hold: every call with a number for pan behaves as the call for the
\* clamped number
PanClampedOfNumbers ==
  (/\ audioCall # None
   /\ audioCall[1].fn \in {"playSonarPing", "playCautionSound"}
   /\ audioCall[1].pan # None) => BehavesAs(Limited(audioCall[1].pan[1]))

\* words occurs in text as a run of consecutive words
Contains(text, words) ==
  \E i \in 0..(Len(text) - Len(words)) : SubSeq(text, i + 1, i + Len(words)) = words
\* the outputs o of a step hold the cue
Emitted(o, cue) == \E i \in 1..Len(o) : o[i] = cue
\* the outputs o of a step hold an utterance that contains words
Spoke(o, words) ==
  \E i \in 1..Len(o) : o[i][1] = "speak" /\ Contains(o[i][2], words)
\* the cues the policy allows for a result: an alarm or caution tone for STOP,
\* the double pulse at the result's pan for CAUTION, one ping at the result's pan
\* for SAFE
PolicyCues(data) ==
  CASE data.safety_status = "STOP" -> {<<"beep", 1000>>, <<"caution", data.stereo_pan>>}
    [] data.safety_status = "CAUTION" -> {<<"caution", data.stereo_pan>>}
    [] OTHER -> {<<"ping", data.stereo_pan>>}

\* C21: a scan cycle that completes with a STOP, CAUTION or SAFE result plays
\* the cue its safety_status selects, at the result's stereo_pan, and speaks a
\* text that contains the navigation command.
C21_FeedbackPolicy ==
  [][ (/\ lastResponse' # lastResponse
       /\ lastResponse'.safety_status \in {"STOP", "CAUTION", "SAFE"}
       /\ lastResponse'.navigation_command # None
       /\ ScanResult) =>
        /\ \E cue \in PolicyCues(lastResponse') : Emitted(out', cue)
        /\ Spoke(out', lastResponse'.navigation_command[1]) ]_vars

\* the revisions whose scan cycle composes the spoken message from command and
\* summary
MessageRevs == {"P2a", "P2b", "P3"}
\* the message the length policy asks for: command and summary when there is a
\* summary and the combined text has at most ten words, else the command
PolicyMessage(data) ==
  IF Truthy(data.reasoning_summary) /\ WordCount(CombinedText(data)) <= 10
  THEN Some(CombinedText(data))
  ELSE data.navigation_command

\* C22: the message spoken for a scan result is command plus reasoning summary
\* when their combined text has at most ten words, and the navigation command
\* alone otherwise.
C22_MessageLength ==
  [][ (/\ rev \in MessageRevs
       /\ lastResponse' # lastResponse
       /\ ~ResultThrows(lastResponse')
       /\ Truthy(lastResponse'.navigation_command)
       /\ ScanResult) =>
        Emitted(out', <<"speak", PolicyMessage(lastResponse')[1], FALSE>>) ]_vars

\* C23: start-listening, taken from Idle or from Scanning with the latch clear,
\* leaves the loop in Listening with a microphone request under way; and no
\* step that leaves the loop in Listening starts a scan-cycle analyzeFrame call.
C23_StartListening ==
  [][ /\ (~emergencyLatch /\ appState \in {"IDLE", "SCANNING"} /\ StartListening) =>
            /\ appState' = "LISTENING"
            /\ micPending' = micPending + 1
      /\ appState' = "LISTENING" => BagCardinality(inflight') <= InFlight ]_vars

\* C24: every exit of a controller entry point leaves the lock released and the
\* processing indicator false: a scan cycle whose call settled; a scan tick
\* that found the lock free and started no call; a stop-recording handler that
\* ended while no scan-cycle call is in flight.
C24_UnconditionalCleanup ==
  [][ /\ (inflight' # inflight /\ ScanResult) =>
            (~isProcessingRef' /\ ~isProcessingState')
      /\ (~isProcessingRef /\ inflight' = inflight /\ ScanTick) => ~isProcessingRef'
      /\ (BagCardinality(voice') < BagCardinality(voice) /\ inflight' = EmptyBag) =>
            ~isProcessingState' ]_vars

\* C25: a step that leaves the loop outside Scanning (the pause itself, or any
\* step taken while paused or listening) starts no scan-cycle analyzeFrame call,
\* whether it is a timer tick, an animation frame or a completing cycle.
C25_PausedStartsNoCycle ==
  [][ appState' # "SCANNING" => BagCardinality(inflight') <= InFlight ]_vars

\* the texts that wrap the JSON token j in code-fence markers
Wrapped(j) == {<<FenceJson, j, Fence>>, <<FenceJson, Ws, j, Ws, Fence>>}
\* the JSON tokens that are classification results
ResultTokens == {"{SAFE}", "{CAUTION}", "{STOP}"}

\* C26: when the response obtained is a JSON value wrapped in code-fence
\* markers, analyzeFrame returns what it returns for the unwrapped text: the
\* parsed value, and for a classification result never the STOP fallback.
C26_FenceStripping ==
  \A j \in JsonTokens :
    (gwPc = "done" /\ Obtained.ok /\ Obtained.text \in Wrapped(j)) =>
      /\ gwOut = AnalyzeFrame([threw |-> FALSE, text |-> <<j>>])
      /\ gwOut = [threw |-> FALSE, value |-> JsonValue(j)]
      /\ j \in ResultTokens => gwOut.value # FallbackResponse
\* a fenced CAUTION result on three lines came back as the CAUTION result
C26_Witness ==
  /\ gwPc = "done"
  /\ gwCalls = <<"gemini-2.5-flash">>
  /\ gwPrimary[1].ok
  /\ gwPrimary[1].text = <<FenceJson, Ws, "{CAUTION}", Ws, Fence>>
  /\ gwOut.value.safety_status = "CAUTION"
  /\ gwOut.value.navigation_command = Some(<<"Move", "right">>)

\* C27: a high-quality speak request for a non-empty text never ends silently:
\* the text is played from the generated audio or spoken by the synthesis
\* fallback, also when generateSpeech returned null or the payload does not
\* decode.
C27_SpeechFallsBack ==
  gwPc = "played" => spoken \in {"tts", "synthesis"}

\* C28: when the microphone request fails the loop is reset to Idle, an error
\* is spoken, and no new request is made.
C28_MicFailure ==
  [][ (micPending > 0 /\ MicDenied) =>
        /\ appState' = "IDLE"
        /\ \E i \in 1..Len(out') : out'[i][1] = "speak"
        /\ micPending' = micPending - 1 ]_vars

\* C29: no step starts more than one scan-cycle analyzeFrame call and a step
\* that takes the lock starts exactly one; a scan cycle that ends with the
\* gateway's fallback result stores it, sounds the alarm and sets the latch, as
\* for a genuine STOP; and while the latch is set no call is started.
C29_NoControllerRetry ==
  [][ /\ BagCardinality(inflight') <= InFlight + 1
      /\ (~isProcessingRef /\ isProcessingRef') => BagCardinality(inflight') = InFlight + 1
      /\ (lastResponse' = FallbackResponse /\ lastResponse # FallbackResponse /\ ScanResult) =>
            /\ emergencyLatch'
            /\ \E cue \in PolicyCues(FallbackResponse) : Emitted(out', cue)
      /\ emergencyLatch => BagCardinality(inflight') <= InFlight ]_vars

\* the closures of the scan ticks that are due: queued animation frames, or the
\* callback of the running interval
DueTicks == IF rev \in RecursiveRevs THEN BagToSet(raf) ELSE {interval[i] : i \in 1..Len(interval)}

\* what the tick of closure cl does to the store, by revision
TickHandler(s, cl, frame) ==
  CASE rev = "P2a" -> RunNavigationLoopP2a([s EXCEPT !.raf = @ (-) One(cl)], cl, frame)
    [] rev = "P2b" -> RunNavigationLoopP2b([s EXCEPT !.raf = @ (-) One(cl)], cl, frame)
    [] rev = "A1" -> RunGeminiCycle(s, cl, frame)
    [] OTHER -> RunNavigationLoopP3(s, cl, frame)

\* scanning, not latched, and no scan-cycle call in flight
AwaitingCycle == appState = "SCANNING" /\ ~emergencyLatch /\ InFlight = 0

\* a due tick whose closure still says scanning and not latched, and which starts
\* a call when it fires with a frame available
NextCycleDue ==
  \E cl \in DueTicks :
    /\ mounted
    /\ cl.appState = "SCANNING" /\ ~cl.emergencyLatch
    /\ BagCardinality(TickHandler(Cur, cl, "ok").inflight) = 1

\* C30, in finite-run form: every step that completes a scan cycle leaves the
\* lock released, and whenever the loop is Scanning, not latched and without a
\* call in flight, the lock is free and a timer or animation frame is due that
\* starts the next analyzeFrame call as soon as it fires with a frame available;
\* with fair timers and frames the next call therefore starts.
C30_ScanLoopProgress ==
  [][ /\ (inflight' # inflight /\ ScanResult) => ~isProcessingRef'
      /\ AwaitingCycle' => (~isProcessingRef' /\ NextCycleDue') ]_vars

\* C31: a scan-cycle analyzeFrame call that settles after the loop has left
\* Scanning is discarded: the step emits no cue and no speech and leaves the
\* latch and the last-known result as they are.
C31_LateResultDiscarded ==
  [][ (appState # "SCANNING" /\ inflight' # inflight /\ ScanResult) =>
        /\ out' = <<>>
        /\ emergencyLatch' = emergencyLatch
        /\ lastResponse' = lastResponse ]_vars

\* the changes of LoopState the state diagram lists, as (from, to) pairs; the
\* reset adds none, every state already has its edge to Idle
ListedTransitions ==
  {<<"IDLE", "SCANNING">>, <<"SCANNING", "IDLE">>,
   <<"IDLE", "LISTENING">>, <<"SCANNING", "LISTENING">>,
   <<"LISTENING", "PROCESSING_QUERY">>,
   <<"LISTENING", "IDLE">>, <<"PROCESSING_QUERY", "IDLE">>}

\* C32: every step that changes LoopState follows one of the listed transitions;
\* Scanning is never entered from Listening or ProcessingQuery, and
\* ProcessingQuery only from Listening.
C32_ListedTransitionsOnly ==
  [][ appState' # appState => <<appState, appState'>> \in ListedTransitions ]_vars

\* C33: at most one recorder is recording at a time, and the blob built when a
\* session's recorder stops holds only chunks that recorder produced.
C33_SessionsNotMixed ==
  /\ Cardinality(Recording(recorders)) <= 1
  /\ audioBlob # None => \A k \in 1..Len(audioBlob[1]) : audioBlob[1][k]

\* C34: the scan lock is set exactly when a scan-cycle analyzeFrame call is in
\* flight; in particular no step leaves it cleared while a call is in flight.
C34_LockAccurate == isProcessingRef <=> InFlight > 0

\* voice-query analyzeFrame calls awaiting their result
VoiceInFlight == CopiesIn("analyze", voice)

\* C35: a voice-query analyzeFrame call and a scan-cycle analyzeFrame call are
\* never in flight at the same time.
C35_VoiceAndScanExclusive == ~(VoiceInFlight > 0 /\ InFlight > 0)

\* C36: once the control has been released the loop returns to Idle with no
\* recorder left recording, unless the control is pressed again first.
C36_ReleaseTerminates ==
  (~held) ~> (held \/ (appState = "IDLE" /\ recState # "recording"))

\* C37: whenever the latch is set the last-known result is non-null and has
\* safety_status STOP; no result that arrives later replaces it.
C37_LatchedResultIsStop ==
  emergencyLatch => (~lastResponse.isNull /\ lastResponse.safety_status = "STOP")

\* A step of the voice-query path is a press or a release, or it moves the
\* voice query on: the settled microphone request leaves micPending, the
\* recorder's stop changes recState, and each step of the onstop handler takes a
\* call out of voice.
VoiceMoves ==
  voice' # voice \/ micPending' # micPending \/ recState' # recState

\* C38: no step of the voice-query path changes the latch; the step that takes
\* the answer of the voice query's analyzeFrame call emits nothing but speech,
\* whatever its safety_status; and while the latch is set startListening
\* changes nothing and requests no microphone.
C38_VoicePathKeepsLatch ==
  /\ []((emergencyLatch /\ rev # "A1") => StartListeningHandler(Cur) = Cur)
  /\ [][ /\ emergencyLatch' # emergencyLatch =>
              (~VoiceMoves /\ ~StartListening /\ ~StopListening)
         /\ CopiesIn("analyze", voice') < VoiceInFlight =>
              \A i \in 1..Len(out') : out'[i][1] = "speak" ]_vars

\* the voice query got the gateway's STOP fallback: it is stored and spoken, and
\* the latch is still clear
C38_Witness ==
  /\ rev \in RecursiveRevs
  /\ lastResponse = FallbackResponse
  /\ ~emergencyLatch
  /\ Emitted(out, <<"speak", AnswerText(FallbackResponse)[1], TRUE>>)

====
